---- MODULE Spec2Model ----
(***************************************************************************)
(* Model of the indicator library (technicalAnalysis.ts,                   *)
(* advancedTechnicalAnalysis.ts), the smart-money structure detector, the  *)
(* confluence engine and the signal classifier (enhancedTradingStrategy.ts)*)
(* and the basic strategy (TradingStrategy).                               *)
(*                                                                         *)
(* Numbers.  Prices are integers counted in pips (10000 pips = 1.0000);    *)
(* every derived JavaScript number is an exact rational, or one of the     *)
(* special values NaN, Infinity, -Infinity, undefined.  Array indices are  *)
(* the 0-based indices of the source; a candle's timestamp is its index.   *)
(***************************************************************************)
EXTENDS Integers, Sequences, FiniteSets, TLC

VARIABLES data, inp, op, out

vars == <<data, inp, op, out>>

(***************************************************************************)
(* JavaScript numbers                                                      *)
(***************************************************************************)
RECURSIVE Gcd(_, _)
Gcd(a, b) == IF b = 0 THEN a ELSE Gcd(b, a % b)

IAbs(i) == IF i < 0 THEN -i ELSE i

IMin(a, b) == IF a < b THEN a ELSE b

IMax(a, b) == IF a > b THEN a ELSE b

\* the rational n/d (d # 0) in lowest terms with a positive denominator
Q(n, d) ==
  LET g == Gcd(IAbs(n), IAbs(d))
      s == IF d < 0 THEN -1 ELSE 1
  IN  [k |-> "num", n |-> s * (n \div g), d |-> s * (d \div g)]

N(i) == [k |-> "num", n |-> i, d |-> 1]

NaN == [k |-> "nan", n |-> 0, d |-> 1]

PosInf == [k |-> "inf", n |-> 1, d |-> 1]

NegInf == [k |-> "inf", n |-> -1, d |-> 1]

Undefined == [k |-> "undef", n |-> 0, d |-> 1]

IsNum(x) == x.k = "num"

IsInf(x) == x.k = "inf"

\* NaN and undefined are both NaN in arithmetic
IsNaNLike(x) == x.k \in {"nan", "undef"}

Sign(x) == IF x.n > 0 THEN 1 ELSE IF x.n < 0 THEN -1 ELSE 0

Neg(x) == IF IsNaNLike(x) THEN NaN ELSE [x EXCEPT !.n = -x.n]

JAdd(x, y) ==
  IF IsNaNLike(x) \/ IsNaNLike(y) THEN NaN
  ELSE IF IsInf(x) /\ IsInf(y) THEN (IF x.n = y.n THEN x ELSE NaN)
  ELSE IF IsInf(x) THEN x
  ELSE IF IsInf(y) THEN y
  ELSE Q(x.n * y.d + y.n * x.d, x.d * y.d)

JSub(x, y) == JAdd(x, Neg(y))

JMul(x, y) ==
  IF IsNaNLike(x) \/ IsNaNLike(y) THEN NaN
  ELSE IF IsInf(x) \/ IsInf(y)
       THEN (IF Sign(x) * Sign(y) = 0 THEN NaN
             ELSE IF Sign(x) * Sign(y) > 0 THEN PosInf ELSE NegInf)
  ELSE Q(x.n * y.n, x.d * y.d)

JDiv(x, y) ==
  IF IsNaNLike(x) \/ IsNaNLike(y) THEN NaN
  ELSE IF IsInf(x) THEN (IF IsInf(y) THEN NaN
                         ELSE IF Sign(x) * (IF y.n < 0 THEN -1 ELSE 1) > 0
                              THEN PosInf ELSE NegInf)
  ELSE IF IsInf(y) THEN N(0)
  ELSE IF y.n = 0 THEN (IF x.n = 0 THEN NaN
                        ELSE IF x.n > 0 THEN PosInf ELSE NegInf)
  ELSE Q(x.n * y.d, x.d * y.n)

\* x < y; every comparison with NaN or undefined is false
JLt(x, y) ==
  IF IsNaNLike(x) \/ IsNaNLike(y) THEN FALSE
  ELSE IF IsInf(x) /\ IsInf(y) THEN x.n < y.n
  ELSE IF IsInf(x) THEN x.n < 0
  ELSE IF IsInf(y) THEN y.n > 0
  ELSE x.n * y.d < y.n * x.d

JGt(x, y) == JLt(y, x)

JEq(x, y) == ~IsNaNLike(x) /\ ~IsNaNLike(y) /\ x = y

JLe(x, y) == JLt(x, y) \/ JEq(x, y)

JGe(x, y) == JLe(y, x)

JAbs(x) == IF IsNaNLike(x) THEN NaN ELSE [x EXCEPT !.n = IAbs(x.n)]

\* Math.max / Math.min: NaN if any argument is NaN
JMax(x, y) == IF IsNaNLike(x) \/ IsNaNLike(y) THEN NaN ELSE IF JLt(x, y) THEN y ELSE x

JMin(x, y) == IF IsNaNLike(x) \/ IsNaNLike(y) THEN NaN ELSE IF JLt(y, x) THEN y ELSE x

\* truthiness of a number-or-undefined: 0, NaN and undefined are falsy
Truthy(x) == IF IsNaNLike(x) THEN FALSE ELSE IF IsInf(x) THEN TRUE ELSE x.n # 0

(***************************************************************************)
(* Arrays with the source's 0-based indices                                *)
(***************************************************************************)
At(s, i) == s[i + 1]

\* Array.prototype.slice(a, b)
Slice(s, a, b) ==
  LET len == Len(s)
      lo  == IF a < 0 THEN IMax(len + a, 0) ELSE IMin(a, len)
      hi  == IF b < 0 THEN IMax(len + b, 0) ELSE IMin(b, len)
  IN  SubSeq(s, lo + 1, hi)

\* the first k elements in place of the last k
FirstN(s, k) == IF Len(s) <= k THEN s ELSE SubSeq(s, 1, k)

\* Array.prototype.slice(-k)
LastN(s, k) == Slice(s, -k, Len(s))

RECURSIVE SumInt(_)
SumInt(s) == IF s = <<>> THEN 0 ELSE Head(s) + SumInt(Tail(s))

RECURSIVE SumNum(_)
SumNum(s) == IF s = <<>> THEN N(0) ELSE JAdd(SumNum(SubSeq(s, 1, Len(s) - 1)), s[Len(s)])

Closes(d) == [i \in 1..Len(d) |-> d[i].close]

\* the lists of a sequence of lists joined in order (what successive pushes
\* of each list's elements build)
RECURSIVE Flatten(_)
Flatten(lists) ==
  IF Len(lists) = 0 THEN <<>>
  ELSE IF Len(lists) = 1 THEN lists[1]
  ELSE LET half == Len(lists) \div 2
       IN  Flatten(SubSeq(lists, 1, half)) \o Flatten(SubSeq(lists, half + 1, Len(lists)))

\* the latest-value lookup reading a missing point as the value 1
LatestValueOrOne(series, back) ==
  IF Len(series) - back >= 1 THEN series[Len(series) - back].value ELSE N(1)

\* arr[arr.length - 1 - back]?.value of an indicator series
LatestValue(series, back) ==
  IF Len(series) - back >= 1 THEN series[Len(series) - back].value ELSE Undefined

(***************************************************************************)
(* Indicator library: TechnicalAnalysis                                    *)
(* A series is a sequence of points [timestamp, value].                    *)
(***************************************************************************)
Pt(t, v) == [timestamp |-> t, value |-> v]

calculateSMA(d, period) ==
  LET closes == Closes(d)
      point(i) == Pt(i, Q(SumInt(Slice(closes, i - period + 1, i + 1)), period))
      cnt == IMax(Len(d) - (period - 1), 0)
  IN  [j \in 1..cnt |-> point(period - 1 + j - 1)]

\* the recurrence of lines 54-60, from candle i on, with the running value ema
RECURSIVE EmaFrom(_, _, _, _)
EmaFrom(d, period, i, ema) ==
  IF i >= Len(d) THEN <<>>
  ELSE LET multiplier == Q(2, period + 1)
           next == JAdd(JMul(JSub(N(At(d, i).close), ema), multiplier), ema)
       IN  <<Pt(i, next)>> \o EmaFrom(d, period, i + 1, next)

\* the loop of lines 54-60 resumed at index mid, after the points of head
EmaResume(head, d, period, mid, seed) ==
  head \o EmaFrom(d, period, mid, IF head = <<>> THEN seed ELSE head[Len(head)].value)

\* the loop of lines 54-60 over all of d, run to the middle candle and resumed
\* there with the value it carries
EmaInHalves(d, period, seed) ==
  EmaResume(EmaFrom(FirstN(d, (period + Len(d)) \div 2), period, period, seed),
            d, period, (period + Len(d)) \div 2, seed)

\* threw: reading .timestamp of data[period - 1] when that element is missing
calculateEMA(d, period) ==
  IF Len(d) = 0 THEN [threw |-> FALSE, pts |-> <<>>]
  ELSE IF period - 1 >= Len(d) THEN [threw |-> TRUE, pts |-> <<>>]
  ELSE LET seed == Q(SumInt(Slice(Closes(d), 0, period)), period)
       IN  [threw |-> FALSE,
            pts |-> <<Pt(period - 1, seed)>> \o EmaInHalves(d, period, seed)]

Gains(d) ==
  [i \in 1..(Len(d) - 1) |->
     LET change == At(d, i).close - At(d, i - 1).close
     IN  IF change > 0 THEN change ELSE 0]

Losses(d) ==
  [i \in 1..(Len(d) - 1) |->
     LET change == At(d, i).close - At(d, i - 1).close
     IN  IF change < 0 THEN IAbs(change) ELSE 0]

\* RS of one window as the plain quotient, a zero average loss included
RelativeStrengthUnguarded(avgGain, avgLoss) == JDiv(avgGain, avgLoss)

\* RS of one window: 100 when the average loss is zero
RelativeStrength(avgGain, avgLoss) ==
  IF JEq(avgLoss, N(0)) THEN N(100) ELSE JDiv(avgGain, avgLoss)

calculateRSI(d, period) ==
  LET gains == Gains(d)
      losses == Losses(d)
      point(i) ==
        LET avgGain == Q(SumInt(Slice(gains, i - period + 1, i + 1)), period)
            avgLoss == Q(SumInt(Slice(losses, i - period + 1, i + 1)), period)
            rs == RelativeStrength(avgGain, avgLoss)
        IN  Pt(i + 1, JSub(N(100), JDiv(N(100), JAdd(N(1), rs))))
      cnt == IMax(Len(gains) - (period - 1), 0)
  IN  [j \in 1..cnt |-> point(period - 1 + j - 1)]

MacdFast == 12

MacdSlow == 26

MacdSignalPeriod == 9

\* index of the EMA12 point that line 103 pairs with EMA26 point i
MacdFastIndex(i) == i + MacdFast - 1

\* first EMA26 index of the loop of line 102
MacdStartIndex == IMax(0, MacdSlow - MacdFast)

\* the MACD line from the two EMA series (lines 101-110); NaN values are skipped
MacdLineFrom(e12, e26, i) ==
  LET pushed(k) ==
        LET fast == IF MacdFastIndex(k) < Len(e12)
                    THEN At(e12, MacdFastIndex(k)).value ELSE Undefined
            macdValue == JSub(fast, At(e26, k).value)
        IN  IF IsNaNLike(macdValue) THEN <<>>
            ELSE <<Pt(At(e26, k).timestamp, macdValue)>>
  IN  Flatten([j \in 1..IMax(IMin(Len(e12), Len(e26)) - i, 0) |-> pushed(i + j - 1)])

RECURSIVE SignalFrom(_, _, _)
SignalFrom(macdLine, i, signal) ==
  IF i >= Len(macdLine) THEN <<>>
  ELSE LET multiplier == Q(2, MacdSignalPeriod + 1)
           next == JAdd(JMul(JSub(At(macdLine, i).value, signal), multiplier), signal)
       IN  <<Pt(At(macdLine, i).timestamp, next)>> \o SignalFrom(macdLine, i + 1, next)

\* the loop of lines 122-128 resumed at index mid, after the points of head
SignalResume(head, macdLine, mid, seed) ==
  head \o SignalFrom(macdLine, mid, IF head = <<>> THEN seed ELSE head[Len(head)].value)

\* the loop of lines 122-128 over the whole MACD line, run to its middle and
\* resumed there with the value it carries
SignalInHalves(macdLine, seed) ==
  SignalResume(SignalFrom(FirstN(macdLine, (MacdSignalPeriod + Len(macdLine)) \div 2), MacdSignalPeriod, seed),
               macdLine, (MacdSignalPeriod + Len(macdLine)) \div 2, seed)

MacdSignalLine(macdLine) ==
  IF Len(macdLine) >= MacdSignalPeriod
  THEN LET first == Slice(macdLine, 0, MacdSignalPeriod)
           seed == JDiv(SumNum([i \in 1..Len(first) |-> first[i].value]),
                        N(MacdSignalPeriod))
       IN  <<Pt(At(macdLine, MacdSignalPeriod - 1).timestamp, seed)>>
           \o SignalInHalves(macdLine, seed)
  ELSE <<>>

MacdHistogram(macdLine, signalLine) ==
  LET off == Len(macdLine) - Len(signalLine)
  IN  [j \in 1..IMin(Len(macdLine), Len(signalLine)) |->
         Pt(At(macdLine, (j - 1) + off).timestamp,
            JSub(At(macdLine, (j - 1) + off).value, At(signalLine, j - 1).value))]

\* lines 131-140: the three series returned
MacdOfLines(macdLine, signalLine) ==
  [threw |-> FALSE, macd |-> macdLine, signal |-> signalLine,
   histogram |-> MacdHistogram(macdLine, signalLine)]

MacdOfLine(macdLine) == MacdOfLines(macdLine, MacdSignalLine(macdLine))

MacdOfAverages(ema12, ema26) ==
  IF ema12.threw \/ ema26.threw
  THEN [threw |-> TRUE, macd |-> <<>>, signal |-> <<>>, histogram |-> <<>>]
  ELSE MacdOfLine(MacdLineFrom(ema12.pts, ema26.pts, MacdStartIndex))

calculateMACD(d) == MacdOfAverages(calculateEMA(d, MacdFast), calculateEMA(d, MacdSlow))

(***************************************************************************)
(* Bollinger bands.  A band value is mean + coef * sqrt(rad), kept exact   *)
(* as the triple (mean, coef, rad); the middle band is the SMA itself.     *)
(***************************************************************************)
Surd(mean, coef, rad) == [mean |-> mean, coef |-> coef, rad |-> rad]

\* sign of a + c * sqrt(r), for numbers a, r (r >= 0) and an integer c
SurdSign(s) ==
  LET a == Sign(s.mean)
      t == IF s.rad.n = 0 THEN 0 ELSE IF s.coef > 0 THEN 1 ELSE IF s.coef < 0 THEN -1 ELSE 0
      a2 == JMul(s.mean, s.mean)
      t2 == JMul(N(s.coef * s.coef), s.rad)
  IN  IF a = t \/ t = 0 THEN a
      ELSE IF a = 0 THEN t
      ELSE IF JGt(a2, t2) THEN a
      ELSE IF JEq(a2, t2) THEN 0
      ELSE t

SurdDefined(s) == IsNum(s.mean) /\ IsNum(s.rad)

\* price <= band, price >= band, for a numeric price
LeSurd(price, s) ==
  SurdDefined(s) /\ IsNum(price) /\ SurdSign(Surd(JSub(s.mean, price), s.coef, s.rad)) >= 0

GeSurd(price, s) ==
  SurdDefined(s) /\ IsNum(price) /\ SurdSign(Surd(JSub(s.mean, price), s.coef, s.rad)) <= 0

TruthySurd(s) == SurdDefined(s) /\ SurdSign(s) # 0

NoSurd == Surd(Undefined, 0, Undefined)

LatestSurd(series) == IF Len(series) >= 1 THEN series[Len(series)].value ELSE NoSurd

calculateBollingerBands(d, period, stdDev) ==
  LET sma == calculateSMA(d, period)
      closes == Closes(d)
      variance(i) ==
        LET dataIndex == i + period - 1
            prices == Slice(closes, dataIndex - period + 1, dataIndex + 1)
            mean == At(sma, i).value
            sq == [j \in 1..Len(prices) |->
                     JMul(JSub(N(prices[j]), mean), JSub(N(prices[j]), mean))]
        IN  JDiv(SumNum(sq), N(period))
      variances == [j \in 1..Len(sma) |-> variance(j - 1)]
  IN  [upper  |-> [j \in 1..Len(sma) |->
                     Pt(sma[j].timestamp, Surd(sma[j].value, stdDev, variances[j]))],
       middle |-> sma,
       lower  |-> [j \in 1..Len(sma) |->
                     Pt(sma[j].timestamp, Surd(sma[j].value, -stdDev, variances[j]))]]

RsiPeriod == 14

BollingerPeriod == 20

BollingerStdDev == 2

\* analyzeAll throws when one of its EMA computations throws
AnalysisOfSeries(d, e12, e26, macd) ==
  [threw |-> e12.threw \/ e26.threw \/ macd.threw,
   sma20 |-> calculateSMA(d, 20),
   sma50 |-> calculateSMA(d, 50),
   ema12 |-> e12.pts,
   ema26 |-> e26.pts,
   rsi |-> calculateRSI(d, RsiPeriod),
   macd |-> [macd |-> macd.macd, signal |-> macd.signal, histogram |-> macd.histogram],
   bollingerBands |-> calculateBollingerBands(d, BollingerPeriod, BollingerStdDev)]

analyzeAll(d) ==
  AnalysisOfSeries(d, calculateEMA(d, MacdFast), calculateEMA(d, MacdSlow), calculateMACD(d))

(***************************************************************************)
(* Indicator library: AdvancedTechnicalAnalysis                            *)
(***************************************************************************)
TrueRange(d, i) ==
  LET high == At(d, i).high
      low == At(d, i).low
      prevClose == At(d, i - 1).close
  IN  IMax(high - low, IMax(IAbs(high - prevClose), IAbs(low - prevClose)))

TrueRanges(d) == [i \in 1..(Len(d) - 1) |-> TrueRange(d, i)]

PlusDMs(d) ==
  [i \in 1..(Len(d) - 1) |->
     LET up == At(d, i).high - At(d, i - 1).high
         down == At(d, i - 1).low - At(d, i).low
     IN  IF up > down THEN IMax(up, 0) ELSE 0]

MinusDMs(d) ==
  [i \in 1..(Len(d) - 1) |->
     LET up == At(d, i).high - At(d, i - 1).high
         down == At(d, i - 1).low - At(d, i).low
     IN  IF down > up THEN IMax(down, 0) ELSE 0]

\* DX of the window ending at index i of the true ranges and directional movements
DirectionalIndex(trueRanges, plusDMs, minusDMs, period, i) ==
  LET avgTR == Q(SumInt(Slice(trueRanges, i - period + 1, i + 1)), period)
      avgPlusDM == Q(SumInt(Slice(plusDMs, i - period + 1, i + 1)), period)
      avgMinusDM == Q(SumInt(Slice(minusDMs, i - period + 1, i + 1)), period)
      plusDI == JMul(JDiv(avgPlusDM, avgTR), N(100))
      minusDI == JMul(JDiv(avgMinusDM, avgTR), N(100))
  IN  JMul(JDiv(JAbs(JSub(plusDI, minusDI)), JAdd(plusDI, minusDI)), N(100))

\* what the loop of lines 49-74 emits from index i on, result being what it
\* has emitted so far
RECURSIVE AdxFrom(_, _, _, _, _, _)
AdxFrom(trueRanges, plusDMs, minusDMs, period, i, result) ==
  IF i >= Len(trueRanges) THEN <<>>
  ELSE LET dx == DirectionalIndex(trueRanges, plusDMs, minusDMs, period, i)
           startIdx == IMax(0, Len(result) - period + 1)
           prior == Slice(result, startIdx, Len(result))
           adxValues == [j \in 1..Len(prior) |-> prior[j].value] \o <<dx>>
           adx == JDiv(SumNum(adxValues), N(Len(adxValues)))
           value == IF i >= period * 2 - 2 THEN adx ELSE dx
           point == Pt(i + 1, value)
       IN  <<point>> \o AdxFrom(trueRanges, plusDMs, minusDMs, period, i + 1,
                                Append(result, point))

\* result followed by what the loop of lines 49-74 emits for the indices
\* from .. to - 1
AdxResume(trueRanges, plusDMs, minusDMs, period, from, to, result) ==
  result \o AdxFrom(FirstN(trueRanges, to), plusDMs, minusDMs, period, from, result)

\* the index closing the k-th of four stretches of the loop's range
AdxCut(len, first, k) == IMax(first + ((len - first) * k) \div 4, first)

\* the loop of lines 49-74 run in four stretches, each resumed with the points
\* emitted before it
AdxInStretches(trueRanges, plusDMs, minusDMs, period, first, len) ==
  AdxResume(trueRanges, plusDMs, minusDMs, period, AdxCut(len, first, 3), len,
    AdxResume(trueRanges, plusDMs, minusDMs, period, AdxCut(len, first, 2), AdxCut(len, first, 3),
      AdxResume(trueRanges, plusDMs, minusDMs, period, AdxCut(len, first, 1), AdxCut(len, first, 2),
        AdxResume(trueRanges, plusDMs, minusDMs, period, first, AdxCut(len, first, 1), <<>>))))

calculateADX(d, period) ==
  AdxInStretches(TrueRanges(d), PlusDMs(d), MinusDMs(d), period, period - 1, Len(d) - 1)

calculateATR(d, period) ==
  LET trueRanges == TrueRanges(d)
      point(i) == Pt(i, Q(SumInt(Slice(trueRanges, i - period, i)), period))
      cnt == IMax(Len(d) - period, 0)
  IN  [j \in 1..cnt |-> point(period + j - 1)]

AdxPeriod == 14

AtrPeriod == 14

(***************************************************************************)
(* Pivot points in double precision.  The pivot levels lie a few units in  *)
(* the last place apart when the candle is flat, so here a JavaScript      *)
(* number is the double itself: a natural number of units of 2^-54, kept   *)
(* as five digits of base 2^15, least significant first.  Every double in  *)
(* [0.25, 8) and every difference of two doubles of [0.5, 8) is a whole    *)
(* number of such units.  Results are rounded to 53 significant bits, ties *)
(* to even, as IEEE 754 does.                                              *)
(***************************************************************************)
DigitBase == 2^15

Big(n) == <<n % DigitBase, n \div DigitBase, 0, 0, 0>>

BigPow2(k) == [i \in 1..5 |-> IF i = k \div 15 + 1 THEN 2^(k % 15) ELSE 0]

BigLess(a, b) == \E i \in 1..5 : a[i] < b[i] /\ \A j \in (i + 1)..5 : a[j] = b[j]

BigLe(a, b) == ~BigLess(b, a)

BigAdd(a, b) ==
  LET s1 == a[1] + b[1]
      s2 == a[2] + b[2] + s1 \div DigitBase
      s3 == a[3] + b[3] + s2 \div DigitBase
      s4 == a[4] + b[4] + s3 \div DigitBase
      s5 == a[5] + b[5] + s4 \div DigitBase
  IN  <<s1 % DigitBase, s2 % DigitBase, s3 % DigitBase, s4 % DigitBase, s5 % DigitBase>>

\* a - b for a >= b
BigSub(a, b) ==
  LET borrow(x) == IF x < 0 THEN 1 ELSE 0
      d1 == a[1] - b[1]
      d2 == a[2] - b[2] - borrow(d1)
      d3 == a[3] - b[3] - borrow(d2)
      d4 == a[4] - b[4] - borrow(d3)
      d5 == a[5] - b[5] - borrow(d4)
      digit(x) == x + borrow(x) * DigitBase
  IN  <<digit(d1), digit(d2), digit(d3), digit(d4), digit(d5)>>

\* quotient and remainder of a by a small divisor
BigDivSmall(a, k) ==
  LET t5 == a[5]
      t4 == (t5 % k) * DigitBase + a[4]
      t3 == (t4 % k) * DigitBase + a[3]
      t2 == (t3 % k) * DigitBase + a[2]
      t1 == (t2 % k) * DigitBase + a[1]
  IN  [q |-> <<t1 \div k, t2 \div k, t3 \div k, t4 \div k, t5 \div k>>, r |-> t1 % k]

\* the number of low bits a value loses when it is kept in 53 bits
LostBits(a) == CHOOSE s \in 0..21 : BigLess(a, BigPow2(53 + s)) /\ (s = 0 \/ BigLe(BigPow2(52 + s), a))

\* a + (a fraction of a unit, nonzero iff sticky), rounded to nearest, ties
\* to even
RoundToDouble(a, sticky) ==
  LET s == LostBits(a)
      rem == a[1] % 2^s
      odd == (a[1] \div 2^s) % 2 = 1
      up == s > 0 /\ (rem * 2 > 2^s \/ (rem * 2 = 2^s /\ (sticky \/ odd)))
      floor == BigSub(a, Big(rem))
  IN  IF up THEN BigAdd(floor, Big(2^s)) ELSE floor

\* the double nearest to a price of k pips (parseFloat of the feed's
\* four-decimal string), for k >= 5000
DoubleOfPips(k) ==
  LET scaled == <<0, 0, 0, (k * 2^9) % DigitBase, (k * 2^9) \div DigitBase>>
      d == BigDivSmall(scaled, 10000)
  IN  RoundToDouble(d.q, d.r # 0)

FAdd(a, b) == RoundToDouble(BigAdd(a, b), FALSE)

FSub(a, b) == RoundToDouble(BigSub(a, b), FALSE)

FDivSmall(a, k) ==
  LET d == BigDivSmall(a, k)
  IN  RoundToDouble(d.q, d.r # 0)

firstCandle(d) == At(d, 0)

\* line 107
lastCandle(d) == At(d, Len(d) - 1)

\* lines 106-125; reading a field of data[-1] throws
calculatePivotPoints(d) ==
  IF Len(d) = 0 THEN [threw |-> TRUE]
  ELSE LET high == DoubleOfPips(lastCandle(d).high)
           low == DoubleOfPips(lastCandle(d).low)
           close == DoubleOfPips(lastCandle(d).close)
           pivot == FDivSmall(FAdd(FAdd(high, low), close), 3)
           resistance1 == FSub(FAdd(pivot, pivot), low)
           support1 == FSub(FAdd(pivot, pivot), high)
           resistance2 == FAdd(pivot, FSub(high, low))
           support2 == FSub(pivot, FSub(high, low))
       IN  [threw |-> FALSE, pivot |-> pivot, resistance1 |-> resistance1,
            resistance2 |-> resistance2, support1 |-> support1, support2 |-> support2]



(***************************************************************************)
(* Candles                                                                 *)
(***************************************************************************)
Candle(o, h, l, c, v) == [open |-> o, high |-> h, low |-> l, close |-> c, volume |-> v]

(***************************************************************************)
(* EnhancedTradingStrategy: configuration                                  *)
(* Prices in the configuration are in pips: fvgMinSize 0.0002 is 2 pips.   *)
(***************************************************************************)
DefaultEnhancedConfig ==
  [riskPercentage |-> 1,
   atrMultiplierSL |-> Q(12, 10),
   atrMultiplierTP |-> N(2),
   minConfidence |-> 65,
   minADX |-> 10,
   maxSpread |-> 3,
   useTrailingStop |-> TRUE,
   fvgMinSize |-> 2,
   orderBlockMinVolume |-> Q(12, 10),
   liquidityThreshold |-> Q(6, 10)]

(***************************************************************************)
(* Structure detector: fair value gaps                                     *)
(***************************************************************************)
\* first origin index scanned by the loop of line 137
FvgFirstIndex == 2

\* first candle index the fill scan of line 175 looks at
FvgFillStart(gap) == gap.index + 1

FvgKeep == 8

\* the gaps pushed at origin index i (lines 138-170), bullish before bearish
FvgAt(d, cfg, i) ==
  LET prev == At(d, i - 1)
      next == At(d, i + 1)
      strength(gapSize) == JMul(JDiv(N(gapSize), N(prev.close)), N(10000))
      bull == IF prev.low > next.high /\ prev.low - next.high >= cfg.fvgMinSize
              THEN <<[type |-> "bullish", high |-> prev.low, low |-> next.high,
                      index |-> i, filled |-> FALSE,
                      strength |-> strength(prev.low - next.high)]>>
              ELSE <<>>
      bear == IF prev.high < next.low /\ next.low - prev.high >= cfg.fvgMinSize
              THEN <<[type |-> "bearish", high |-> next.low, low |-> prev.high,
                      index |-> i, filled |-> FALSE,
                      strength |-> strength(next.low - prev.high)]>>
              ELSE <<>>
  IN  bull \o bear

FvgScan(d, cfg, i) ==
  Flatten([j \in 1..IMax(Len(d) - 1 - i, 0) |-> FvgAt(d, cfg, i + j - 1)])

\* a fill flag that looks at the latest candle only
FvgFilledByLastCandle(d, gap) ==
  \/ gap.type = "bullish" /\ At(d, Len(d) - 1).low <= gap.low
  \/ gap.type = "bearish" /\ At(d, Len(d) - 1).high >= gap.high

\* the fill check of lines 174-185 for one gap
FvgFilled(d, gap) ==
  \E j \in FvgFillStart(gap)..(Len(d) - 1) :
    \/ gap.type = "bullish" /\ At(d, j).low <= gap.low
    \/ gap.type = "bearish" /\ At(d, j).high >= gap.high

\* every gap detected, before the cap of line 187
AllFairValueGaps(d, cfg) ==
  LET gaps == FvgScan(d, cfg, FvgFirstIndex)
  IN  [g \in 1..Len(gaps) |-> [gaps[g] EXCEPT !.filled = FvgFilled(d, gaps[g])]]

identifyFairValueGaps(d, cfg) == LastN(AllFairValueGaps(d, cfg), FvgKeep)

(***************************************************************************)
(* Structure detector: order blocks                                        *)
(***************************************************************************)
\* candle.volume || 1
VolumeOr1(c) == IF c.volume = 0 THEN 1 ELSE c.volume

\* mean volume used by lines 196 and 310: the window's sum over the constant 5
VolumeLookback == 5

AvgVolumeBefore(d, i) ==
  LET w == Slice(d, IMax(0, i - VolumeLookback), i)
  IN  Q(SumInt([j \in 1..Len(w) |-> VolumeOr1(w[j])]), 5)

OrderBlockMargin == 3

OrderBlockKeep == 6

DemandTested(d, i) ==
  \E j \in (i + 1)..(Len(d) - 1) :
    At(d, j).low <= At(d, i).high /\ At(d, j).low >= At(d, i).low

SupplyTested(d, i) ==
  \E j \in (i + 1)..(Len(d) - 1) :
    At(d, j).high >= At(d, i).low /\ At(d, j).high <= At(d, i).high

\* the blocks pushed for candle i (lines 194-244)
OrderBlocksAt(d, cfg, i) ==
  LET candle == At(d, i)
      volume == VolumeOr1(candle)
      avgVolume == AvgVolumeBefore(d, i)
      bodySize == IAbs(candle.close - candle.open)
      candleRange == candle.high - candle.low
      bigBody == 2 * bodySize > candleRange
      strength == JMul(JDiv(N(volume), avgVolume), JDiv(N(bodySize), N(candleRange)))
      block(type, tested) ==
        [type |-> type, high |-> candle.high, low |-> candle.low, volume |-> volume,
         index |-> i, tested |-> tested, strength |-> strength]
  IN  IF JGt(N(volume), JMul(avgVolume, cfg.orderBlockMinVolume))
      THEN (IF candle.close > candle.open /\ bigBody
            THEN <<block("demand", DemandTested(d, i))>> ELSE <<>>)
           \o
           (IF candle.close < candle.open /\ bigBody
            THEN <<block("supply", SupplyTested(d, i))>> ELSE <<>>)
      ELSE <<>>

OrderBlockScan(d, cfg, i) ==
  Flatten([j \in 1..IMax(Len(d) - OrderBlockMargin - i, 0) |-> OrderBlocksAt(d, cfg, i + j - 1)])

AllOrderBlocks(d, cfg) == OrderBlockScan(d, cfg, OrderBlockMargin)

identifyOrderBlocks(d, cfg) == LastN(AllOrderBlocks(d, cfg), OrderBlockKeep)

(***************************************************************************)
(* Structure detector: liquidity zones                                     *)
(***************************************************************************)
SwingLookback == 3

LiquidityKeep == 8

TouchWindow == 10

calculateLiquidityStrength(d, index, type) ==
  LET candle == At(d, index)
      volume == VolumeOr1(candle)
      avgVolume == AvgVolumeBefore(d, index)
      targetPrice == IF type = "high" THEN candle.high ELSE candle.low
      tolerance == Q(targetPrice * 2, 10000)
      touches == {i \in IMax(0, index - TouchWindow)..(IMin(Len(d), index + TouchWindow) - 1) :
                    /\ i # index
                    /\ \/ type = "high"
                          /\ JLe(N(IAbs(At(d, i).high - targetPrice)), tolerance)
                       \/ type = "low"
                          /\ JLe(N(IAbs(At(d, i).low - targetPrice)), tolerance)}
  IN  JAdd(JDiv(N(volume), avgVolume), Q(Cardinality(touches) * 3, 10))

\* the zones pushed for candle i when a neighbour's equal extreme is allowed
LiquidityZonesAtWithTies(d, i) ==
  LET candle == At(d, i)
      leftCandles == Slice(d, i - SwingLookback, i)
      rightCandles == Slice(d, i + 1, i + SwingLookback + 1)
      isSwingHigh == /\ \A j \in 1..Len(leftCandles) : leftCandles[j].high <= candle.high
                     /\ \A j \in 1..Len(rightCandles) : rightCandles[j].high <= candle.high
      isSwingLow == /\ \A j \in 1..Len(leftCandles) : leftCandles[j].low >= candle.low
                    /\ \A j \in 1..Len(rightCandles) : rightCandles[j].low >= candle.low
      sweptHigh == \E j \in (i + 1)..(Len(d) - 1) : At(d, j).high > candle.high
      sweptLow == \E j \in (i + 1)..(Len(d) - 1) : At(d, j).low < candle.low
  IN  (IF isSwingHigh
       THEN <<[type |-> "sell_liquidity", price |-> candle.high,
               strength |-> calculateLiquidityStrength(d, i, "high"),
               index |-> i, swept |-> sweptHigh]>>
       ELSE <<>>)
      \o
      (IF isSwingLow
       THEN <<[type |-> "buy_liquidity", price |-> candle.low,
               strength |-> calculateLiquidityStrength(d, i, "low"),
               index |-> i, swept |-> sweptLow]>>
       ELSE <<>>)

\* the zones pushed for candle i (lines 255-301), swing high before swing low
LiquidityZonesAt(d, i) ==
  LET candle == At(d, i)
      leftCandles == Slice(d, i - SwingLookback, i)
      rightCandles == Slice(d, i + 1, i + SwingLookback + 1)
      isSwingHigh == /\ \A j \in 1..Len(leftCandles) : leftCandles[j].high < candle.high
                     /\ \A j \in 1..Len(rightCandles) : rightCandles[j].high < candle.high
      isSwingLow == /\ \A j \in 1..Len(leftCandles) : leftCandles[j].low > candle.low
                    /\ \A j \in 1..Len(rightCandles) : rightCandles[j].low > candle.low
      sweptHigh == \E j \in (i + 1)..(Len(d) - 1) : At(d, j).high > candle.high
      sweptLow == \E j \in (i + 1)..(Len(d) - 1) : At(d, j).low < candle.low
  IN  (IF isSwingHigh
       THEN <<[type |-> "sell_liquidity", price |-> candle.high,
               strength |-> calculateLiquidityStrength(d, i, "high"),
               index |-> i, swept |-> sweptHigh]>>
       ELSE <<>>)
      \o
      (IF isSwingLow
       THEN <<[type |-> "buy_liquidity", price |-> candle.low,
               strength |-> calculateLiquidityStrength(d, i, "low"),
               index |-> i, swept |-> sweptLow]>>
       ELSE <<>>)

LiquidityScan(d, i) ==
  Flatten([j \in 1..IMax(Len(d) - SwingLookback - i, 0) |-> LiquidityZonesAt(d, i + j - 1)])

AllLiquidityZones(d) == LiquidityScan(d, SwingLookback)

identifyLiquidityZones(d) == LastN(AllLiquidityZones(d), LiquidityKeep)

(***************************************************************************)
(* Structure detector: volume profile and microstructure                   *)
(***************************************************************************)
VolumeProfileWindow == 10

analyzeVolumeProfile(d) ==
  LET recentData == LastN(d, VolumeProfileWindow)
      currentVolume == IF Len(recentData) = 0 THEN 1 ELSE VolumeOr1(recentData[Len(recentData)])
      avgVolume == JDiv(N(SumInt([j \in 1..Len(recentData) |-> VolumeOr1(recentData[j])])),
                        N(Len(recentData)))
  IN  IF JGt(N(currentVolume), JMul(avgVolume, Q(13, 10))) THEN "high"
      ELSE IF JGt(N(currentVolume), JMul(avgVolume, Q(7, 10))) THEN "medium"
      ELSE "low"

countHigherHighs(d) == Cardinality({i \in 1..(Len(d) - 1) : At(d, i).high > At(d, i - 1).high})

countLowerLows(d) == Cardinality({i \in 1..(Len(d) - 1) : At(d, i).low < At(d, i - 1).low})

MicrostructureWindow == 5

\* the two tallies of lines 347-369
MicrostructureTally(d, fvgs, orderBlocks) ==
  LET recentData == LastN(d, MicrostructureWindow)
      currentPrice == At(d, Len(d) - 1).close
      higherHighs == countHigherHighs(recentData)
      lowerLows == countLowerLows(recentData)
      bullFvg(g) == g.type = "bullish" /\ ~g.filled /\ currentPrice > g.low
      bearFvg(g) == g.type = "bearish" /\ ~g.filled /\ currentPrice < g.high
      demand(b) == b.type = "demand" /\ ~b.tested /\ currentPrice > b.low
      supply(b) == b.type = "supply" /\ ~b.tested /\ currentPrice < b.high
      CountWhere(s, P(_)) == Cardinality({i \in 1..Len(s) : P(s[i])})
  IN  [bullish |-> (IF higherHighs > lowerLows THEN 1 ELSE 0)
                   + CountWhere(fvgs, bullFvg) + CountWhere(orderBlocks, demand),
       bearish |-> (IF higherHighs > lowerLows THEN 0
                    ELSE IF lowerLows > higherHighs THEN 1 ELSE 0)
                   + CountWhere(fvgs, bearFvg) + CountWhere(orderBlocks, supply)]

\* the verdict with a tie of the tallies counted as bullish
MicrostructureTieIsBullish(d, fvgs, orderBlocks) ==
  LET t == MicrostructureTally(d, fvgs, orderBlocks)
  IN  IF t.bullish >= t.bearish THEN "bullish" ELSE "bearish"

\* lines 371-373
analyzeMarketMicrostructure(d, fvgs, orderBlocks) ==
  LET t == MicrostructureTally(d, fvgs, orderBlocks)
  IN  IF t.bullish > t.bearish THEN "bullish"
      ELSE IF t.bearish > t.bullish THEN "bearish"
      ELSE "neutral"


(***************************************************************************)
(* Confluence engine (analyzeAdvancedConfluence).  A reason is the fixed   *)
(* text of its template; the formatted number after it is left out.        *)
(***************************************************************************)
Tally(bull, bear, score, reasons) ==
  [bullish |-> bull, bearish |-> bear, confluenceScore |-> score, reasons |-> reasons]

NoTally == Tally(0, 0, 0, <<>>)

Bull(w, reason) == Tally(w, 0, w, <<reason>>)

Bear(w, reason) == Tally(0, w, w, <<reason>>)

AddTally(a, b) ==
  Tally(a.bullish + b.bullish, a.bearish + b.bearish,
        a.confluenceScore + b.confluenceScore, a.reasons \o b.reasons)

\* the RSI rule with its four tests made independently of one another
RsiRuleIndependentTests(analysis) ==
  LET rsi == LatestValue(analysis.rsi, 0)
  IN  IF ~Truthy(rsi) THEN NoTally
      ELSE AddTally(IF JLt(rsi, N(30)) THEN Bull(4, "RSI oversold") ELSE NoTally,
           AddTally(IF JGt(rsi, N(70)) THEN Bear(4, "RSI overbought") ELSE NoTally,
           AddTally(IF JLt(rsi, N(40)) THEN Bull(2, "RSI bullish") ELSE NoTally,
                    IF JGt(rsi, N(60)) THEN Bear(2, "RSI bearish") ELSE NoTally)))

\* lines 411-430
RsiRule(analysis) ==
  LET rsi == LatestValue(analysis.rsi, 0)
  IN  IF ~Truthy(rsi) THEN NoTally
      ELSE IF JLt(rsi, N(30)) THEN Bull(4, "RSI oversold")
      ELSE IF JGt(rsi, N(70)) THEN Bear(4, "RSI overbought")
      ELSE IF JLt(rsi, N(40)) THEN Bull(2, "RSI bullish")
      ELSE IF JGt(rsi, N(60)) THEN Bear(2, "RSI bearish")
      ELSE NoTally

\* lines 433-454
MacdRule(analysis) ==
  LET macdHist == LatestValue(analysis.macd.histogram, 0)
      prevMACDHist == LatestValue(analysis.macd.histogram, 1)
  IN  IF ~(Truthy(macdHist) /\ Truthy(prevMACDHist)) THEN NoTally
      ELSE IF JLe(prevMACDHist, N(0)) /\ JGt(macdHist, N(0))
           THEN Bull(5, "MACD bullish crossover")
      ELSE IF JGe(prevMACDHist, N(0)) /\ JLt(macdHist, N(0))
           THEN Bear(5, "MACD bearish crossover")
      ELSE IF JGt(macdHist, N(0)) THEN Bull(2, "MACD above zero")
      ELSE IF JLt(macdHist, N(0)) THEN Bear(2, "MACD below zero")
      ELSE NoTally

\* lines 457-470
EmaRule(analysis, currentPrice) ==
  LET ema12 == LatestValue(analysis.ema12, 0)
      ema26 == LatestValue(analysis.ema26, 0)
  IN  IF ~(Truthy(ema12) /\ Truthy(ema26)) THEN NoTally
      ELSE IF JGt(ema12, ema26) /\ JGt(N(currentPrice), ema12)
           THEN Bull(3, "Bullish EMA trend")
      ELSE IF JLt(ema12, ema26) /\ JLt(N(currentPrice), ema12)
           THEN Bear(3, "Bearish EMA trend")
      ELSE NoTally

\* currentPrice >= x.low * 0.998 && currentPrice <= x.high * 1.002
NearRange(currentPrice, x) ==
  /\ JGe(N(currentPrice), JMul(N(x.low), Q(998, 1000)))
  /\ JLe(N(currentPrice), JMul(N(x.high), Q(1002, 1000)))

\* lines 473-477 and 484-488, lines 479-482 and 490-494: find stops at the first
\* near gap, so a gap type fires once however many gaps are near
FvgRule(fvgs, currentPrice, type) ==
  IF \E i \in 1..Len(fvgs) :
       fvgs[i].type = type /\ ~fvgs[i].filled /\ NearRange(currentPrice, fvgs[i])
  THEN IF type = "bullish" THEN Bull(3, "Near bullish FVG") ELSE Bear(3, "Near bearish FVG")
  ELSE NoTally

\* lines 473-493
FvgRules(fvgs, currentPrice) ==
  AddTally(FvgRule(fvgs, currentPrice, "bullish"), FvgRule(fvgs, currentPrice, "bearish"))

\* lines 496-500 and 507-511, lines 502-505 and 513-517
OrderBlockRule(orderBlocks, currentPrice, type) ==
  IF \E i \in 1..Len(orderBlocks) :
       /\ orderBlocks[i].type = type
       /\ ~orderBlocks[i].tested
       /\ NearRange(currentPrice, orderBlocks[i])
  THEN IF type = "demand" THEN Bull(3, "Near demand block") ELSE Bear(3, "Near supply block")
  ELSE NoTally

\* lines 496-516
OrderBlockRules(orderBlocks, currentPrice) ==
  AddTally(OrderBlockRule(orderBlocks, currentPrice, "demand"),
           OrderBlockRule(orderBlocks, currentPrice, "supply"))

\* lines 519-527
MicrostructureRule(microstructure) ==
  IF microstructure = "bullish" THEN Bull(2, "Bullish market structure")
  ELSE IF microstructure = "bearish" THEN Bear(2, "Bearish market structure")
  ELSE NoTally

\* the volume rule counted as bullish evidence as well
VolumeRuleCountedBullish(volumeProfile) ==
  IF volumeProfile = "high" THEN Bull(2, "High volume confirmation") ELSE NoTally

\* lines 530-533
VolumeRule(volumeProfile) ==
  IF volumeProfile = "high" THEN Tally(0, 0, 2, <<"High volume confirmation">>) ELSE NoTally

\* the session rule with a penalty of 2 outside the sessions
SessionRuleHeavyPenalty(sessionFilter) ==
  IF ~sessionFilter THEN Tally(0, 0, -2, <<"Outside major sessions">>)
  ELSE Tally(0, 0, 1, <<"Active trading session">>)

\* lines 536-542
SessionRule(sessionFilter) ==
  IF ~sessionFilter THEN Tally(0, 0, -1, <<"Outside major sessions">>)
  ELSE Tally(0, 0, 1, <<"Active trading session">>)

\* the confidence without the cap of line 549
ConfluenceConfidenceNoCap(signals) ==
  LET totalSignals == signals.bullish + signals.bearish
      base == IF totalSignals > 0
              THEN JMul(Q(IMax(signals.bullish, signals.bearish), totalSignals), N(100))
              ELSE N(50)
      confluenceBoost == IMin(signals.confluenceScore * 2, 25)
      boosted == JAdd(base, N(confluenceBoost))
  IN  IF signals.confluenceScore >= 5 THEN JMax(boosted, N(60)) ELSE boosted

\* the confidence with base 0 when no directional rule fired
ConfluenceConfidenceBaseZero(signals) ==
  LET totalSignals == signals.bullish + signals.bearish
      base == IF totalSignals > 0
              THEN JMul(Q(IMax(signals.bullish, signals.bearish), totalSignals), N(100))
              ELSE N(0)
      confluenceBoost == IMin(signals.confluenceScore * 2, 25)
      capped == JMin(JAdd(base, N(confluenceBoost)), N(95))
  IN  IF signals.confluenceScore >= 5 THEN JMax(capped, N(60)) ELSE capped

\* lines 544-554
ConfluenceConfidence(signals) ==
  LET totalSignals == signals.bullish + signals.bearish
      base == IF totalSignals > 0
              THEN JMul(Q(IMax(signals.bullish, signals.bearish), totalSignals), N(100))
              ELSE N(50)
      confluenceBoost == IMin(signals.confluenceScore * 2, 25)
      capped == JMin(JAdd(base, N(confluenceBoost)), N(95))
  IN  IF signals.confluenceScore >= 5 THEN JMax(capped, N(60)) ELSE capped

analyzeAdvancedConfluence(analysis, advancedAnalysis, currentPrice, fvgs, orderBlocks, volumeProfile, microstructure) ==
  LET signals ==
        AddTally(RsiRule(analysis),
        AddTally(MacdRule(analysis),
        AddTally(EmaRule(analysis, currentPrice),
        AddTally(FvgRules(fvgs, currentPrice),
        AddTally(OrderBlockRules(orderBlocks, currentPrice),
        AddTally(MicrostructureRule(microstructure),
        AddTally(VolumeRule(volumeProfile),
                 SessionRule(advancedAnalysis.sessionFilter))))))))
  IN  [bullish |-> signals.bullish,
       bearish |-> signals.bearish,
       confidence |-> ConfluenceConfidence(signals),
       reasons |-> signals.reasons,
       confluenceScore |-> signals.confluenceScore]

(***************************************************************************)
(* Signal classifier (determineSmartMoneySignal)                           *)
(***************************************************************************)
MinConfluence == 4

\* the very-strong test without its confluence threshold
IsVeryStrongSignalNoScore(ca) ==
  /\ IAbs(ca.bullish - ca.bearish) >= 6
  /\ JGe(ca.confidence, N(85))

IsVeryStrongSignal(ca) ==
  /\ ca.confluenceScore >= 12
  /\ IAbs(ca.bullish - ca.bearish) >= 6
  /\ JGe(ca.confidence, N(85))

IsStrongSignal(ca) ==
  /\ ca.confluenceScore >= 8
  /\ IAbs(ca.bullish - ca.bearish) >= 4
  /\ JGe(ca.confidence, N(75))

\* the classifier with a tie counted as bullish
determineSmartMoneySignalTieBuys(ca, cfg) ==
  IF JLt(ca.confidence, N(cfg.minConfidence)) THEN "HOLD"
  ELSE IF ca.confluenceScore < MinConfluence THEN "HOLD"
  ELSE IF ca.bullish >= ca.bearish
       THEN (IF IsVeryStrongSignal(ca) THEN "STRONG_BUY"
             ELSE IF IsStrongSignal(ca) THEN "BUY" ELSE "WEAK_BUY")
  ELSE (IF IsVeryStrongSignal(ca) THEN "STRONG_SELL"
        ELSE IF IsStrongSignal(ca) THEN "SELL" ELSE "WEAK_SELL")

determineSmartMoneySignal(ca, cfg) ==
  IF JLt(ca.confidence, N(cfg.minConfidence)) THEN "HOLD"
  ELSE IF ca.confluenceScore < MinConfluence THEN "HOLD"
  ELSE IF ca.bullish > ca.bearish
       THEN (IF IsVeryStrongSignal(ca) THEN "STRONG_BUY"
             ELSE IF IsStrongSignal(ca) THEN "BUY" ELSE "WEAK_BUY")
  ELSE IF ca.bearish > ca.bullish
       THEN (IF IsVeryStrongSignal(ca) THEN "STRONG_SELL"
             ELSE IF IsStrongSignal(ca) THEN "SELL" ELSE "WEAK_SELL")
  ELSE "HOLD"

BuyFamily == {"STRONG_BUY", "BUY", "WEAK_BUY"}

SellFamily == {"STRONG_SELL", "SELL", "WEAK_SELL"}

\* signal.includes('BUY'), signal.includes('STRONG')
IncludesBuy(signal) == signal \in BuyFamily

IncludesStrong(signal) == signal \in {"STRONG_BUY", "STRONG_SELL"}

(***************************************************************************)
(* Stop-loss and take-profit                                               *)
(***************************************************************************)
\* the selection with the sort order reversed
FirstBestReversed(s, idx, keys, asc) ==
  LET best == {i \in idx : \A j \in idx : IF asc THEN keys[i] >= keys[j]
                                                 ELSE keys[i] <= keys[j]}
  IN  IF idx = {} THEN <<>>
      ELSE <<s[CHOOSE i \in best : \A j \in best : i <= j]>>

\* xs.filter(keep).sort(by key, ascending if asc)[0]: the first kept element
\* whose key no kept element beats (Array.prototype.sort is stable);
\* idx: the indices kept by the filter; keys: the sort key of every element
FirstBest(s, idx, keys, asc) ==
  LET best == {i \in idx : \A j \in idx : IF asc THEN keys[i] <= keys[j]
                                                 ELSE keys[i] >= keys[j]}
  IN  IF idx = {} THEN <<>>
      ELSE <<s[CHOOSE i \in best : \A j \in best : i <= j]>>

calculateSmartStopLoss(currentPrice, atr, signal, orderBlocks, cfg) ==
  IF signal = "HOLD" THEN Undefined
  ELSE IF IncludesBuy(signal)
  THEN LET keep(b) == b.type = "demand" /\ b.high < currentPrice
           key(b) == b.high
           relevantBlock == FirstBest(orderBlocks, {i \in 1..Len(orderBlocks) : keep(orderBlocks[i])},
                               [i \in 1..Len(orderBlocks) |-> key(orderBlocks[i])], FALSE)
       IN  IF relevantBlock # <<>>
           THEN JSub(N(relevantBlock[1].low), JMul(atr, Q(3, 10)))
           ELSE JSub(N(currentPrice), JMul(atr, cfg.atrMultiplierSL))
  ELSE LET keep(b) == b.type = "supply" /\ b.low > currentPrice
           key(b) == b.low
           relevantBlock == FirstBest(orderBlocks, {i \in 1..Len(orderBlocks) : keep(orderBlocks[i])},
                               [i \in 1..Len(orderBlocks) |-> key(orderBlocks[i])], TRUE)
       IN  IF relevantBlock # <<>>
           THEN JAdd(N(relevantBlock[1].high), JMul(atr, Q(3, 10)))
           ELSE JAdd(N(currentPrice), JMul(atr, cfg.atrMultiplierSL))

\* Array.prototype.sort: the receiver as the call leaves it, ordered by key
\* (ascending if asc), elements of equal key keeping their order
SortInPlace(s, keys, asc) ==
  LET before(i, j) == \/ IF asc THEN keys[i] < keys[j] ELSE keys[i] > keys[j]
                      \/ keys[i] = keys[j] /\ i < j
      rank(i) == 1 + Cardinality({j \in 1..Len(s) : before(j, i)})
  IN  [p \in 1..Len(s) |-> s[CHOOSE i \in 1..Len(s) : rank(i) = p]]

\* the order-block array with the sort of the stop-loss applied to it directly
OrderBlocksSortedInPlace(signal, orderBlocks) ==
  IF signal = "HOLD" THEN orderBlocks
  ELSE IF IncludesBuy(signal)
  THEN SortInPlace(orderBlocks, [i \in 1..Len(orderBlocks) |-> orderBlocks[i].high], FALSE)
  ELSE SortInPlace(orderBlocks, [i \in 1..Len(orderBlocks) |-> orderBlocks[i].low], TRUE)

\* the order-block array passed to calculateSmartStopLoss as the call leaves
\* it: filter (lines 613, 623) returns a new array and sort (lines 614, 624)
\* reorders that new array, so the array passed keeps its order
OrderBlocksAfterStopLoss(signal, orderBlocks) == orderBlocks

\* the ATR multiple of lines 662 and 679
FallbackTargetMultiplier(signal) == IF IncludesStrong(signal) THEN Q(25, 10) ELSE N(2)

calculateSmartTakeProfit(currentPrice, atr, signal, fvgs, liquidityZones) ==
  IF signal = "HOLD" THEN Undefined
  ELSE IF IncludesBuy(signal)
  THEN LET keepG(g) == g.type = "bearish" /\ ~g.filled /\ g.low > currentPrice
           keyG(g) == g.low
           keepZ(z) == z.type = "sell_liquidity" /\ ~z.swept /\ z.price > currentPrice
           keyZ(z) == z.price
           targetFVG == FirstBest(fvgs, {i \in 1..Len(fvgs) : keepG(fvgs[i])},
                               [i \in 1..Len(fvgs) |-> keyG(fvgs[i])], TRUE)
           targetLiquidity == FirstBest(liquidityZones, {i \in 1..Len(liquidityZones) : keepZ(liquidityZones[i])},
                               [i \in 1..Len(liquidityZones) |-> keyZ(liquidityZones[i])], TRUE)
       IN  IF targetFVG # <<>>
              /\ (targetLiquidity = <<>> \/ targetFVG[1].low < targetLiquidity[1].price)
           THEN N(targetFVG[1].low)
           ELSE IF targetLiquidity # <<>> THEN N(targetLiquidity[1].price)
           ELSE JAdd(N(currentPrice), JMul(atr, FallbackTargetMultiplier(signal)))
  ELSE LET keepG(g) == g.type = "bullish" /\ ~g.filled /\ g.high < currentPrice
           keyG(g) == g.high
           keepZ(z) == z.type = "buy_liquidity" /\ ~z.swept /\ z.price < currentPrice
           keyZ(z) == z.price
           targetFVG == FirstBest(fvgs, {i \in 1..Len(fvgs) : keepG(fvgs[i])},
                               [i \in 1..Len(fvgs) |-> keyG(fvgs[i])], FALSE)
           targetLiquidity == FirstBest(liquidityZones, {i \in 1..Len(liquidityZones) : keepZ(liquidityZones[i])},
                               [i \in 1..Len(liquidityZones) |-> keyZ(liquidityZones[i])], FALSE)
       IN  IF targetFVG # <<>>
              /\ (targetLiquidity = <<>> \/ targetFVG[1].high > targetLiquidity[1].price)
           THEN N(targetFVG[1].high)
           ELSE IF targetLiquidity # <<>> THEN N(targetLiquidity[1].price)
           ELSE JSub(N(currentPrice), JMul(atr, FallbackTargetMultiplier(signal)))

(***************************************************************************)
(* generateEnhancedSignal                                                  *)
(***************************************************************************)
\* the latest ATR value taken as it is, without the default of line 93
AtrWithoutDefault(advancedAnalysis) == LatestValue(advancedAnalysis.atr, 0)

\* atr[atr.length - 1]?.value || 0.001, in pips
AtrOrDefault(advancedAnalysis) ==
  LET last == LatestValue(advancedAnalysis.atr, 0)
  IN  IF Truthy(last) THEN last ELSE N(10)

\* takeProfit && stopLoss ? |takeProfit - price| / |price - stopLoss| : undefined
EnhancedRiskReward(currentPrice, stopLoss, takeProfit) ==
  IF Truthy(takeProfit) /\ Truthy(stopLoss)
  THEN JDiv(JAbs(JSub(takeProfit, N(currentPrice))), JAbs(JSub(N(currentPrice), stopLoss)))
  ELSE Undefined

\* threw: data[data.length - 1] is missing for an empty sequence
generateEnhancedSignal(d, analysis, advancedAnalysis, cfg) ==
  IF Len(d) = 0 THEN [threw |-> TRUE]
  ELSE
  LET currentPrice == At(d, Len(d) - 1).close
      atr == AtrOrDefault(advancedAnalysis)
      fairValueGaps == identifyFairValueGaps(d, cfg)
      orderBlocks == identifyOrderBlocks(d, cfg)
      liquidityZones == identifyLiquidityZones(d)
      volumeProfile == analyzeVolumeProfile(d)
      microstructure == analyzeMarketMicrostructure(d, fairValueGaps, orderBlocks)
      ca == analyzeAdvancedConfluence(analysis, advancedAnalysis, currentPrice,
                                      fairValueGaps, orderBlocks, volumeProfile,
                                      microstructure)
      signal == determineSmartMoneySignal(ca, cfg)
      stopLoss == calculateSmartStopLoss(currentPrice, atr, signal, orderBlocks, cfg)
      takeProfit == calculateSmartTakeProfit(currentPrice, atr, signal, fairValueGaps,
                                             liquidityZones)
  IN  [threw |-> FALSE,
       signal |-> signal,
       confidence |-> ca.confidence,
       timestamp |-> Len(d) - 1,
       price |-> currentPrice,
       reasons |-> ca.reasons,
       stopLoss |-> stopLoss,
       takeProfit |-> takeProfit,
       trailingStop |-> IF cfg.useTrailingStop THEN JMul(atr, Q(6, 10)) ELSE Undefined,
       riskReward |-> EnhancedRiskReward(currentPrice, stopLoss, takeProfit),
       sessionActive |-> advancedAnalysis.sessionFilter,
       confluenceScore |-> ca.confluenceScore,
       fairValueGaps |-> fairValueGaps,
       orderBlocks |-> orderBlocks,
       liquidityZones |-> liquidityZones,
       volumeProfile |-> volumeProfile,
       microstructure |-> microstructure]

(***************************************************************************)
(* Basic strategy (TradingStrategy)                                        *)
(***************************************************************************)
DefaultBasicConfig ==
  [riskPercentage |-> 2, stopLossPoints |-> 50, takeProfitRatio |-> 2, minConfidence |-> 70]

BasicTally(bull, bear, reasons) == [bullish |-> bull, bearish |-> bear, reasons |-> reasons]

AddBasic(a, b) ==
  BasicTally(a.bullish + b.bullish, a.bearish + b.bearish, a.reasons \o b.reasons)

NoBasic == BasicTally(0, 0, <<>>)

\* lines 262-275
BasicSmaRule(analysis, currentPrice) ==
  LET sma20 == LatestValue(analysis.sma20, 0)
      sma50 == LatestValue(analysis.sma50, 0)
  IN  IF ~(Truthy(sma20) /\ Truthy(sma50)) THEN NoBasic
      ELSE IF JGt(sma20, sma50) /\ JGt(N(currentPrice), sma20)
           THEN BasicTally(2, 0, <<"Price above rising SMA20 > SMA50">>)
      ELSE IF JLt(sma20, sma50) /\ JLt(N(currentPrice), sma20)
           THEN BasicTally(0, 2, <<"Price below falling SMA20 < SMA50">>)
      ELSE NoBasic

\* lines 278-286
BasicEmaRule(analysis) ==
  LET ema12 == LatestValue(analysis.ema12, 0)
      ema26 == LatestValue(analysis.ema26, 0)
  IN  IF ~(Truthy(ema12) /\ Truthy(ema26)) THEN NoBasic
      ELSE IF JGt(ema12, ema26) THEN BasicTally(1, 0, <<"EMA12 > EMA26 (bullish crossover)">>)
      ELSE BasicTally(0, 1, <<"EMA12 < EMA26 (bearish crossover)">>)

\* lines 289-304
BasicRsiRule(analysis) ==
  LET rsi == LatestValue(analysis.rsi, 0)
  IN  IF ~Truthy(rsi) THEN NoBasic
      ELSE IF JLt(rsi, N(30)) THEN BasicTally(2, 0, <<"RSI oversold">>)
      ELSE IF JGt(rsi, N(70)) THEN BasicTally(0, 2, <<"RSI overbought">>)
      ELSE IF JLt(rsi, N(45)) THEN BasicTally(1, 0, <<"RSI showing bullish momentum">>)
      ELSE IF JGt(rsi, N(55)) THEN BasicTally(0, 1, <<"RSI showing bearish momentum">>)
      ELSE NoBasic

\* lines 307-319
BasicMacdRule(analysis) ==
  LET macd == LatestValue(analysis.macd.macd, 0)
      macdSignal == LatestValue(analysis.macd.signal, 0)
      macdHist == LatestValue(analysis.macd.histogram, 0)
  IN  IF ~(Truthy(macd) /\ Truthy(macdSignal) /\ Truthy(macdHist)) THEN NoBasic
      ELSE IF JGt(macd, macdSignal) /\ JGt(macdHist, N(0))
           THEN BasicTally(1, 0, <<"MACD bullish crossover">>)
      ELSE IF JLt(macd, macdSignal) /\ JLt(macdHist, N(0))
           THEN BasicTally(0, 1, <<"MACD bearish crossover">>)
      ELSE NoBasic

\* lines 322-340
BasicBollingerRule(analysis, currentPrice) ==
  LET bbUpper == LatestSurd(analysis.bollingerBands.upper)
      bbLower == LatestSurd(analysis.bollingerBands.lower)
      bbMiddle == LatestValue(analysis.bollingerBands.middle, 0)
  IN  IF ~(TruthySurd(bbUpper) /\ TruthySurd(bbLower) /\ Truthy(bbMiddle)) THEN NoBasic
      ELSE IF LeSurd(N(currentPrice), bbLower)
           THEN BasicTally(2, 0, <<"Price at lower Bollinger Band (oversold)">>)
      ELSE IF GeSurd(N(currentPrice), bbUpper)
           THEN BasicTally(0, 2, <<"Price at upper Bollinger Band (overbought)">>)
      ELSE IF JGt(N(currentPrice), bbMiddle)
           THEN BasicTally(1, 0, <<"Price above BB middle line">>)
      ELSE BasicTally(0, 1, <<"Price below BB middle line">>)

analyzeIndicators(analysis, currentPrice) ==
  AddBasic(BasicSmaRule(analysis, currentPrice),
  AddBasic(BasicEmaRule(analysis),
  AddBasic(BasicRsiRule(analysis),
  AddBasic(BasicMacdRule(analysis),
           BasicBollingerRule(analysis, currentPrice)))))

calculateConfidence(signals) ==
  LET totalSignals == signals.bullish + signals.bearish
      strongerSignal == IMax(signals.bullish, signals.bearish)
      confidenceBoost == IMin(Len(signals.reasons) * 5, 20)
  IN  IF totalSignals = 0 THEN N(0)
      ELSE JMin(JAdd(JMul(Q(strongerSignal, totalSignals), N(100)), N(confidenceBoost)),
                N(100))

determineSignal(signals, confidence, cfg) ==
  IF JLt(confidence, N(cfg.minConfidence)) THEN "HOLD"
  ELSE IF signals.bullish > signals.bearish THEN "BUY"
  ELSE IF signals.bearish > signals.bullish THEN "SELL"
  ELSE "HOLD"

\* the riskReward field of the object returned at lines 242-251
BasicRiskReward(cfg, signal) == N(cfg.takeProfitRatio)

\* stopLossPoints * 0.0001 is stopLossPoints pips
generateSignal(d, analysis, cfg) ==
  IF Len(d) = 0 THEN [threw |-> TRUE]
  ELSE
  LET currentPrice == At(d, Len(d) - 1).close
      signals == analyzeIndicators(analysis, currentPrice)
      confidence == calculateConfidence(signals)
      signal == determineSignal(signals, confidence, cfg)
      stopLoss == IF signal = "BUY" THEN N(currentPrice - cfg.stopLossPoints)
                  ELSE IF signal = "SELL" THEN N(currentPrice + cfg.stopLossPoints)
                  ELSE Undefined
      takeProfit == IF signal = "BUY"
                    THEN N(currentPrice + cfg.stopLossPoints * cfg.takeProfitRatio)
                    ELSE IF signal = "SELL"
                    THEN N(currentPrice - cfg.stopLossPoints * cfg.takeProfitRatio)
                    ELSE Undefined
  IN  [threw |-> FALSE,
       signal |-> signal,
       confidence |-> confidence,
       timestamp |-> Len(d) - 1,
       price |-> currentPrice,
       reasons |-> signals.reasons,
       stopLoss |-> stopLoss,
       takeProfit |-> takeProfit,
       riskReward |-> BasicRiskReward(cfg, signal)]


(***************************************************************************)
(* State machine.  The library is stateless: a state holds the arguments   *)
(* of a call (data, inp), the operation called last (op) and what it       *)
(* returned (out).                                                         *)
(***************************************************************************)
NoOutput == [threw |-> FALSE]

\* ---- the indicator library on its own ----
MaxIndLen == 52

IndBase == 11000

IndVolume == 1000

IndBumps == {-20, 0, 20}

IndWicks == {0, 5}

\* n candles closing at IndBase, the last two closes moved by b1 and b2; each
\* candle opens at the previous close and has wicks of w pips
IndCloseAt(n, b1, b2, i) ==
  IF i < 0 THEN IndBase
  ELSE IF i = n - 1 THEN IndBase + b2
  ELSE IF i = n - 2 THEN IndBase + b1
  ELSE IndBase

IndData(n, w, b1, b2) ==
  [j \in 1..n |->
     LET o == IndCloseAt(n, b1, b2, j - 2)
         c == IndCloseAt(n, b1, b2, j - 1)
     IN  Candle(o, IMax(o, c) + w, IMin(o, c) - w, c, IndVolume)]

InitInd ==
  /\ \E n \in 0..MaxIndLen, w \in IndWicks, b1 \in IndBumps, b2 \in IndBumps :
       data = IndData(n, w, b1, b2)
  /\ inp = [period |-> 0]
  /\ op = "init"
  /\ out = NoOutput

CalcSMA ==
  \E period \in {20, 50} :
    /\ op' = "calculateSMA"
    /\ inp' = [period |-> period]
    /\ out' = [threw |-> FALSE, pts |-> calculateSMA(data, period)]
    /\ UNCHANGED data

CalcEMA ==
  \E period \in {MacdFast, MacdSlow} :
    /\ op' = "calculateEMA"
    /\ inp' = [period |-> period]
    /\ out' = calculateEMA(data, period)
    /\ UNCHANGED data

CalcRSI ==
  /\ op' = "calculateRSI"
  /\ inp' = [period |-> RsiPeriod]
  /\ out' = [threw |-> FALSE, pts |-> calculateRSI(data, RsiPeriod)]
  /\ UNCHANGED data

CalcMACD ==
  /\ op' = "calculateMACD"
  /\ inp' = [period |-> MacdSlow]
  /\ out' = calculateMACD(data)
  /\ UNCHANGED data

CalcBollinger ==
  /\ op' = "calculateBollingerBands"
  /\ inp' = [period |-> BollingerPeriod]
  /\ out' = [threw |-> FALSE] @@ calculateBollingerBands(data, BollingerPeriod, BollingerStdDev)
  /\ UNCHANGED data

CalcADX ==
  /\ op' = "calculateADX"
  /\ inp' = [period |-> AdxPeriod]
  /\ out' = [threw |-> FALSE, pts |-> calculateADX(data, AdxPeriod)]
  /\ UNCHANGED data

CalcATR ==
  /\ op' = "calculateATR"
  /\ inp' = [period |-> AtrPeriod]
  /\ out' = [threw |-> FALSE, pts |-> calculateATR(data, AtrPeriod)]
  /\ UNCHANGED data

NextInd == CalcSMA \/ CalcEMA \/ CalcRSI \/ CalcMACD \/ CalcBollinger \/ CalcADX \/ CalcATR

SpecInd == InitInd /\ [][NextInd]_vars


\* ---- the fair value gap detector on short candle sequences ----
MaxFvgLen == 6

FvgLow == 11000

\* three candle shapes: a low one, a high one 30 pips above it, a wide one over both
FvgCandles ==
  {Candle(FvgLow, FvgLow + 20, FvgLow, FvgLow + 20, 1000),
   Candle(FvgLow + 70, FvgLow + 70, FvgLow + 50, FvgLow + 50, 1000),
   Candle(FvgLow + 10, FvgLow + 60, FvgLow + 10, FvgLow + 60, 1000)}

\* gaps between the low and the high shape are 30 pips wide
FvgMinSizes == {2, 30, 31}

SeqsUpTo(S, n) == UNION {[1..k -> S] : k \in 0..n}

InitFvg ==
  /\ data \in SeqsUpTo(FvgCandles, MaxFvgLen)
  /\ \E m \in FvgMinSizes : inp = [config |-> [DefaultEnhancedConfig EXCEPT !.fvgMinSize = m]]
  /\ op = "init"
  /\ out = NoOutput

IdentifyFairValueGaps ==
  /\ op' = "identifyFairValueGaps"
  /\ out' = [threw |-> FALSE, gaps |-> identifyFairValueGaps(data, inp.config)]
  /\ UNCHANGED <<data, inp>>

NextFvg == IdentifyFairValueGaps

SpecFvg == InitFvg /\ [][NextFvg]_vars


\* ---- the confluence engine, the classifier and the two signal generators ----
\* current price of every drawn input
SigPrice == 11000

Ser(values) == [i \in 1..Len(values) |-> Pt(i - 1, values[i])]

EmptyAnalysis ==
  [sma20 |-> <<>>, sma50 |-> <<>>, ema12 |-> <<>>, ema26 |-> <<>>, rsi |-> <<>>,
   macd |-> [macd |-> <<>>, signal |-> <<>>, histogram |-> <<>>],
   bollingerBands |-> [upper |-> <<>>, middle |-> <<>>, lower |-> <<>>]]

RsiInputs == {<<>>, <<N(0)>>, <<N(25)>>, <<N(35)>>, <<N(50)>>, <<N(65)>>, <<N(75)>>}

HistInputs ==
  {<<>>, <<N(1)>>, <<N(0), N(1)>>, <<N(-1), N(1)>>, <<N(1), N(-1)>>,
   <<N(1), N(1)>>, <<N(-1), N(-1)>>}

\* <<ema12, ema26>>: absent, bullish trend, bearish trend, neither
EmaInputs ==
  {<<<<>>, <<>>>>,
   <<<<N(SigPrice - 10)>>, <<N(SigPrice - 20)>>>>,
   <<<<N(SigPrice + 10)>>, <<N(SigPrice + 20)>>>>,
   <<<<N(SigPrice + 10)>>, <<N(SigPrice - 20)>>>>}

Gap(type, low, high, filled) ==
  [type |-> type, high |-> high, low |-> low, index |-> 2, filled |-> filled,
   strength |-> JMul(JDiv(N(high - low), N(SigPrice)), N(10000))]

FvgInputs ==
  {<<>>,
   <<Gap("bullish", SigPrice - 10, SigPrice + 10, FALSE)>>,
   <<Gap("bullish", SigPrice - 10, SigPrice + 10, TRUE),
     Gap("bearish", SigPrice - 10, SigPrice + 10, FALSE)>>,
   <<Gap("bullish", SigPrice - 10, SigPrice + 10, FALSE),
     Gap("bearish", SigPrice - 10, SigPrice + 10, FALSE)>>}

Block(type, low, high, tested) ==
  [type |-> type, high |-> high, low |-> low, volume |-> 3000, index |-> 3,
   tested |-> tested, strength |-> N(2)]

BlockInputs ==
  {<<>>,
   <<Block("demand", SigPrice - 20, SigPrice + 5, FALSE)>>,
   <<Block("demand", SigPrice - 20, SigPrice + 5, TRUE),
     Block("supply", SigPrice - 5, SigPrice + 20, FALSE)>>,
   <<Block("demand", SigPrice - 20, SigPrice + 5, FALSE),
     Block("supply", SigPrice - 5, SigPrice + 20, FALSE)>>}

MinConfidences == {65, 85}

AnalysisOf(rsi, hist, ema) ==
  [EmptyAnalysis EXCEPT !.rsi = Ser(rsi), !.macd.histogram = Ser(hist),
                        !.ema12 = Ser(ema[1]), !.ema26 = Ser(ema[2])]

\* arguments of analyzeAdvancedConfluence
InitConfluence ==
  /\ data = <<>>
  /\ \E rsi \in RsiInputs, hist \in HistInputs, ema \in EmaInputs, fvgs \in FvgInputs,
        blocks \in BlockInputs, micro \in {"bullish", "bearish", "neutral"},
        vol \in {"high", "medium"}, session \in BOOLEAN, mc \in MinConfidences :
       inp = [kind |-> "confluence",
              analysis |-> AnalysisOf(rsi, hist, ema),
              advancedAnalysis |-> [atr |-> <<>>, sessionFilter |-> session],
              currentPrice |-> SigPrice,
              fvgs |-> fvgs,
              orderBlocks |-> blocks,
              volumeProfile |-> vol,
              microstructure |-> micro,
              config |-> [DefaultEnhancedConfig EXCEPT !.minConfidence = mc]]
  /\ op = "init"
  /\ out = NoOutput

\* nine candles ending at SigPrice: a demand block at candle 3 below the price and
\* a swing high at candle 5 above it
UpData ==
  <<Candle(SigPrice - 110, SigPrice - 95, SigPrice - 115, SigPrice - 100, 1000),
    Candle(SigPrice - 100, SigPrice - 90, SigPrice - 110, SigPrice - 95, 1000),
    Candle(SigPrice - 95, SigPrice - 90, SigPrice - 105, SigPrice - 100, 1000),
    Candle(SigPrice - 100, SigPrice - 35, SigPrice - 105, SigPrice - 40, 3000),
    Candle(SigPrice - 30, SigPrice + 45, SigPrice - 30, SigPrice + 40, 1000),
    Candle(SigPrice + 40, SigPrice + 100, SigPrice + 30, SigPrice + 50, 1000),
    Candle(SigPrice + 50, SigPrice + 60, SigPrice + 10, SigPrice + 20, 1000),
    Candle(SigPrice + 20, SigPrice + 30, SigPrice - 5, SigPrice + 5, 1000),
    Candle(SigPrice + 5, SigPrice + 15, SigPrice - 10, SigPrice, 1000)>>

\* reflection of a candle sequence about SigPrice
Mirror(d) ==
  [i \in 1..Len(d) |->
     Candle(2 * SigPrice - d[i].open, 2 * SigPrice - d[i].low,
            2 * SigPrice - d[i].high, 2 * SigPrice - d[i].close, d[i].volume)]

QuietData == [i \in 1..8 |-> Candle(SigPrice, SigPrice + 5, SigPrice - 5, SigPrice, 1000)]

SignalData == {QuietData, UpData, Mirror(UpData)}

AtrInputs == {<<>>, <<N(0)>>, <<N(15)>>}

\* arguments of generateEnhancedSignal
InitEnhanced ==
  /\ data \in SignalData
  /\ \E rsi \in RsiInputs, hist \in HistInputs, ema \in EmaInputs, atr \in AtrInputs,
        session \in BOOLEAN, mc \in MinConfidences :
       inp = [kind |-> "enhanced",
              analysis |-> AnalysisOf(rsi, hist, ema),
              advancedAnalysis |-> [atr |-> Ser(atr), sessionFilter |-> session],
              config |-> [DefaultEnhancedConfig EXCEPT !.minConfidence = mc]]
  /\ op = "init"
  /\ out = NoOutput

\* <<sma20, sma50>>
SmaInputs ==
  {<<<<>>, <<>>>>,
   <<<<N(SigPrice - 10)>>, <<N(SigPrice - 20)>>>>,
   <<<<N(SigPrice + 10)>>, <<N(SigPrice + 20)>>>>,
   <<<<N(SigPrice + 10)>>, <<>>>>}

\* <<macd, signal, histogram>>
BasicMacdInputs ==
  {<<<<>>, <<>>, <<>>>>,
   <<<<N(3)>>, <<N(1)>>, <<N(2)>>>>,
   <<<<N(-3)>>, <<N(-1)>>, <<N(-2)>>>>,
   <<<<N(3)>>, <<N(3)>>, <<N(0)>>>>}

\* Bollinger bands as <<mean, variance>>: absent, price under the lower band,
\* over the upper band, above the middle, at the middle
BandInputs ==
  {<<>>, <<SigPrice + 30, 100>>, <<SigPrice - 30, 100>>, <<SigPrice - 10, 100>>,
   <<SigPrice, 0>>}

BandsOf(b) ==
  IF b = <<>> THEN [upper |-> <<>>, middle |-> <<>>, lower |-> <<>>]
  ELSE [upper |-> <<Pt(0, Surd(N(b[1]), BollingerStdDev, N(b[2])))>>,
        middle |-> <<Pt(0, N(b[1]))>>,
        lower |-> <<Pt(0, Surd(N(b[1]), -BollingerStdDev, N(b[2])))>>]

BasicAnalysisOf(sma, ema, rsi, macd, bands) ==
  [EmptyAnalysis EXCEPT !.sma20 = Ser(sma[1]), !.sma50 = Ser(sma[2]),
                        !.ema12 = Ser(ema[1]), !.ema26 = Ser(ema[2]),
                        !.rsi = Ser(rsi),
                        !.macd = [macd |-> Ser(macd[1]), signal |-> Ser(macd[2]),
                                  histogram |-> Ser(macd[3])],
                        !.bollingerBands = BandsOf(bands)]

\* arguments of generateSignal
InitBasic ==
  /\ data = QuietData
  /\ \E sma \in SmaInputs, ema \in EmaInputs, rsi \in RsiInputs, macd \in BasicMacdInputs,
        bands \in BandInputs :
       inp = [kind |-> "basic",
              analysis |-> BasicAnalysisOf(sma, ema, rsi, macd, bands),
              config |-> DefaultBasicConfig]
  /\ op = "init"
  /\ out = NoOutput

InitSignal == InitConfluence \/ InitEnhanced \/ InitBasic

AnalyzeAdvancedConfluence ==
  /\ inp.kind = "confluence"
  /\ op' = "analyzeAdvancedConfluence"
  /\ out' = analyzeAdvancedConfluence(inp.analysis, inp.advancedAnalysis, inp.currentPrice,
                                      inp.fvgs, inp.orderBlocks, inp.volumeProfile,
                                      inp.microstructure)
  /\ UNCHANGED <<data, inp>>

\* the classifier, applied to the confluence analysis just computed
DetermineSmartMoneySignal ==
  /\ op = "analyzeAdvancedConfluence"
  /\ op' = "determineSmartMoneySignal"
  /\ out' = [ca |-> out, signal |-> determineSmartMoneySignal(out, inp.config)]
  /\ UNCHANGED <<data, inp>>

GenerateEnhancedSignal ==
  /\ inp.kind = "enhanced"
  /\ op' = "generateEnhancedSignal"
  /\ out' = generateEnhancedSignal(data, inp.analysis, inp.advancedAnalysis, inp.config)
  /\ UNCHANGED <<data, inp>>

\* analyzeIndicators followed by calculateConfidence
CalculateConfidence ==
  /\ inp.kind = "basic"
  /\ op' = "calculateConfidence"
  /\ out' = LET signals == analyzeIndicators(inp.analysis, At(data, Len(data) - 1).close)
            IN  [signals |-> signals, confidence |-> calculateConfidence(signals)]
  /\ UNCHANGED <<data, inp>>

GenerateSignal ==
  /\ inp.kind = "basic"
  /\ op' = "generateSignal"
  /\ out' = generateSignal(data, inp.analysis, inp.config)
  /\ UNCHANGED <<data, inp>>

NextSignal ==
  \/ AnalyzeAdvancedConfluence
  \/ DetermineSmartMoneySignal
  \/ GenerateEnhancedSignal
  \/ CalculateConfidence
  \/ GenerateSignal

SpecSignal == InitSignal /\ [][NextSignal]_vars


\* ---- both strategies on a flat market, indicators computed from the candles ----
FlatLen == 30

FlatBase == 11000

FlatPriceSteps == 19

FlatVolumes == {0, 1000, 500000}

FlatData(n, price, volume) == [i \in 1..n |-> Candle(price, price, price, price, volume)]

\* the strategy call of useEnhancedTradingSignals, reached unless an indicator
\* call threw before it
EnhancedSignalFrom(d, analysis, advancedAnalysis, cfg) ==
  IF analysis.threw THEN [threw |-> TRUE]
  ELSE generateEnhancedSignal(d, analysis, advancedAnalysis, cfg)

\* the indicator and strategy calls of useEnhancedTradingSignals, made on any
\* candle sequence, with the session flag given instead of read from the clock
EnhancedPipeline(d, sessionFilter, cfg) ==
  EnhancedSignalFrom(d, analyzeAll(d),
                     [adx |-> calculateADX(d, AdxPeriod),
                      atr |-> calculateATR(d, AtrPeriod),
                      sessionFilter |-> sessionFilter],
                     cfg)

\* the strategy call of useTradingSignals, reached unless an indicator call
\* threw before it
BasicSignalFrom(d, analysis, cfg) ==
  IF analysis.threw THEN [threw |-> TRUE] ELSE generateSignal(d, analysis, cfg)

\* the indicator and strategy calls of useTradingSignals, made on any candle
\* sequence
BasicPipeline(d, cfg) == BasicSignalFrom(d, analyzeAll(d), cfg)

InitFlat ==
  /\ \E k \in 0..FlatPriceSteps, v \in FlatVolumes : data = FlatData(FlatLen, FlatBase + k, v)
  /\ \E session \in BOOLEAN : inp = [sessionFilter |-> session]
  /\ op = "init"
  /\ out = NoOutput

RunEnhancedPipeline ==
  /\ op' = "enhancedPipeline"
  /\ out' = EnhancedPipeline(data, inp.sessionFilter, DefaultEnhancedConfig)
  /\ UNCHANGED <<data, inp>>

RunBasicPipeline ==
  /\ op' = "basicPipeline"
  /\ out' = BasicPipeline(data, DefaultBasicConfig)
  /\ UNCHANGED <<data, inp>>

NextFlat == RunEnhancedPipeline \/ RunBasicPipeline

SpecFlat == InitFlat /\ [][NextFlat]_vars

\* ---- stop-loss and take-profit levels on drawn structure lists ----
MaxLevelLen == 2

AllSignals == BuyFamily \cup SellFamily \cup {"HOLD"}

LevelAtrs == {N(10), Q(25, 2)}

Zone(type, price, swept) ==
  [type |-> type, price |-> price, strength |-> N(1), index |-> 3, swept |-> swept]

\* demand and supply blocks on both sides of SigPrice, tested or not
LevelBlocks ==
  {Block(t, SigPrice + lo, SigPrice + lo + 20, tested) :
     t \in {"demand", "supply"}, lo \in {-100, -40, 20, 80}, tested \in BOOLEAN}

\* gaps and zones on both sides of SigPrice; the low of the first gap above
\* equals the price of the zone above
LevelGaps ==
  {Gap("bullish", SigPrice - 60, SigPrice - 40, FALSE),
   Gap("bullish", SigPrice - 30, SigPrice - 10, FALSE),
   Gap("bullish", SigPrice - 30, SigPrice - 10, TRUE),
   Gap("bearish", SigPrice + 30, SigPrice + 50, FALSE),
   Gap("bearish", SigPrice + 30, SigPrice + 50, TRUE),
   Gap("bearish", SigPrice + 60, SigPrice + 80, FALSE)}

LevelZones ==
  {Zone(t, p, swept) :
     t \in {"sell_liquidity"}, p \in {SigPrice + 30}, swept \in BOOLEAN}
  \cup
  {Zone(t, p, swept) :
     t \in {"buy_liquidity"}, p \in {SigPrice - 60}, swept \in BOOLEAN}

InitStop ==
  /\ data = <<>>
  /\ \E signal \in AllSignals, atr \in LevelAtrs, blocks \in SeqsUpTo(LevelBlocks, MaxLevelLen) :
       inp = [kind |-> "stop", currentPrice |-> SigPrice, atr |-> atr, signal |-> signal,
              orderBlocks |-> blocks, config |-> DefaultEnhancedConfig]
  /\ op = "init"
  /\ out = NoOutput

\* values of config.atrMultiplierTP: the default of line 74 and another
TargetMultipliers == {N(2), N(3)}

InitTarget ==
  /\ data = <<>>
  /\ \E signal \in AllSignals, atr \in LevelAtrs, tp \in TargetMultipliers,
        fvgs \in SeqsUpTo(LevelGaps, MaxLevelLen), zones \in SeqsUpTo(LevelZones, MaxLevelLen) :
       inp = [kind |-> "target", currentPrice |-> SigPrice, atr |-> atr, signal |-> signal,
              fvgs |-> fvgs, liquidityZones |-> zones,
              config |-> [DefaultEnhancedConfig EXCEPT !.atrMultiplierTP = tp]]
  /\ op = "init"
  /\ out = NoOutput

InitLevels == InitStop \/ InitTarget

CalculateSmartStopLoss ==
  /\ inp.kind = "stop"
  /\ op' = "calculateSmartStopLoss"
  /\ out' = [threw |-> FALSE,
             stopLoss |-> calculateSmartStopLoss(inp.currentPrice, inp.atr, inp.signal,
                                                 inp.orderBlocks, inp.config)]
  /\ UNCHANGED <<data, inp>>

CalculateSmartTakeProfit ==
  /\ inp.kind = "target"
  /\ op' = "calculateSmartTakeProfit"
  /\ out' = [threw |-> FALSE,
             takeProfit |-> calculateSmartTakeProfit(inp.currentPrice, inp.atr, inp.signal,
                                                     inp.fvgs, inp.liquidityZones)]
  /\ UNCHANGED <<data, inp>>

NextLevels == CalculateSmartStopLoss \/ CalculateSmartTakeProfit

SpecLevels == InitLevels /\ [][NextLevels]_vars

\* ---- the three structure detectors on long patterned candle sequences ----
MaxCapLen == 26

CapBase == 11000

CapShapes == {"stairUp", "stairDown", "zigzag"}

CapBodies == {"up", "down", "alternate"}

CapVolumes == {1000, 3000}

\* low of candle i: a staircase of 15-pip steps, or a zigzag of period 4
CapLowAt(shape, phase, i) ==
  IF shape = "stairUp" THEN CapBase + 15 * i
  ELSE IF shape = "stairDown" THEN CapBase - 15 * i
  ELSE CapBase + 20 * (IF (i + phase) % 4 = 0 THEN 0
                       ELSE IF (i + phase) % 4 = 2 THEN 2 ELSE 1)

\* candles 10 pips high with a full body; every second candle has volume high
CapData(n, shape, phase, body, high) ==
  [k \in 1..n |->
     LET i == k - 1
         low == CapLowAt(shape, phase, i)
         rising == body = "up" \/ (body = "alternate" /\ (i \div 2) % 2 = 0)
     IN  Candle(IF rising THEN low ELSE low + 10, low + 10, low,
                IF rising THEN low + 10 ELSE low,
                IF (i + phase) % 2 = 0 THEN high ELSE 1000)]

InitCaps ==
  /\ \E n \in 0..MaxCapLen, shape \in CapShapes, phase \in 0..3, body \in CapBodies,
        high \in CapVolumes : data = CapData(n, shape, phase, body, high)
  /\ inp = [config |-> DefaultEnhancedConfig]
  /\ op = "init"
  /\ out = NoOutput

FairValueGapsOfPattern ==
  /\ op' = "identifyFairValueGaps"
  /\ out' = [threw |-> FALSE, list |-> identifyFairValueGaps(data, inp.config)]
  /\ UNCHANGED <<data, inp>>

IdentifyOrderBlocks ==
  /\ op' = "identifyOrderBlocks"
  /\ out' = [threw |-> FALSE, list |-> identifyOrderBlocks(data, inp.config)]
  /\ UNCHANGED <<data, inp>>

IdentifyLiquidityZones ==
  /\ op' = "identifyLiquidityZones"
  /\ out' = [threw |-> FALSE, list |-> identifyLiquidityZones(data)]
  /\ UNCHANGED <<data, inp>>

NextCaps == FairValueGapsOfPattern \/ IdentifyOrderBlocks \/ IdentifyLiquidityZones

SpecCaps == InitCaps /\ [][NextCaps]_vars

\* ---- the structure lists recomputed as candles are appended ----
MaxGrowLen == 9

\* how many candles arrive at once
AppendSizes == {1, 2}

GrowBase == 11000

\* a quiet candle, a selling candle above it, a wide buying candle over both
GrowCandles ==
  {Candle(GrowBase - 20, GrowBase, GrowBase - 20, GrowBase, 1000),
   Candle(GrowBase + 60, GrowBase + 60, GrowBase + 10, GrowBase + 10, 3000),
   Candle(GrowBase - 30, GrowBase + 80, GrowBase - 40, GrowBase + 75, 3000)}

\* the three structure lists of lines 95-97
StructureLists(d, cfg) ==
  [fairValueGaps |-> identifyFairValueGaps(d, cfg),
   orderBlocks |-> identifyOrderBlocks(d, cfg),
   liquidityZones |-> identifyLiquidityZones(d)]

InitGrow ==
  /\ data = <<>>
  /\ inp = [config |-> DefaultEnhancedConfig,
            previous |-> StructureLists(<<>>, DefaultEnhancedConfig)]
  /\ op = "init"
  /\ out = StructureLists(<<>>, DefaultEnhancedConfig)

\* new candles arrive and the lists are computed afresh from the longer
\* sequence; the lists of the sequence before are remembered in inp.previous
AppendAndRecompute ==
  \E k \in AppendSizes : \E ext \in [1..k -> GrowCandles] :
    /\ Len(data) + Len(ext) <= MaxGrowLen
    /\ data' = data \o ext
    /\ inp' = [inp EXCEPT !.previous = out]
    /\ op' = "recompute"
    /\ out' = StructureLists(data', inp.config)

NextGrow == AppendAndRecompute

SpecGrow == InitGrow /\ [][NextGrow]_vars

\* ---- the signal generators invoked repeatedly on the same input ----
MaxCalls == 2

\* ten rising candles with demand blocks at candles 3 and 5, both under the
\* last close
TwoBlockData ==
  <<Candle(SigPrice - 200, SigPrice - 195, SigPrice - 205, SigPrice - 200, 1000),
    Candle(SigPrice - 200, SigPrice - 195, SigPrice - 205, SigPrice - 200, 1000),
    Candle(SigPrice - 200, SigPrice - 195, SigPrice - 205, SigPrice - 200, 1000),
    Candle(SigPrice - 200, SigPrice - 145, SigPrice - 205, SigPrice - 150, 3000),
    Candle(SigPrice - 150, SigPrice - 135, SigPrice - 155, SigPrice - 140, 1000),
    Candle(SigPrice - 140, SigPrice - 85, SigPrice - 145, SigPrice - 90, 3000),
    Candle(SigPrice - 90, SigPrice - 45, SigPrice - 95, SigPrice - 50, 1000),
    Candle(SigPrice - 50, SigPrice - 15, SigPrice - 55, SigPrice - 20, 1000),
    Candle(SigPrice - 20, SigPrice + 5, SigPrice - 25, SigPrice, 1000),
    Candle(SigPrice, SigPrice + 15, SigPrice - 5, SigPrice + 10, 1000)>>

TwiceData == SignalData \cup {TwoBlockData, Mirror(TwoBlockData)}

NoCalls == [threw |-> FALSE, calls |-> 0]

InitTwiceEnhanced ==
  /\ data \in TwiceData
  /\ \E rsi \in RsiInputs, hist \in HistInputs, ema \in EmaInputs, atr \in AtrInputs,
        session \in BOOLEAN :
       inp = [kind |-> "enhanced",
              given |-> data,
              analysis |-> AnalysisOf(rsi, hist, ema),
              advancedAnalysis |-> [atr |-> Ser(atr), sessionFilter |-> session],
              config |-> DefaultEnhancedConfig]
  /\ op = "init"
  /\ out = NoCalls

InitTwiceBasic ==
  /\ data \in TwiceData
  /\ \E sma \in SmaInputs, rsi \in RsiInputs, macd \in BasicMacdInputs, bands \in BandInputs :
       inp = [kind |-> "basic",
              given |-> data,
              analysis |-> BasicAnalysisOf(sma, <<<<>>, <<>>>>, rsi, macd, bands),
              config |-> DefaultBasicConfig]
  /\ op = "init"
  /\ out = NoCalls

InitTwice == InitTwiceEnhanced \/ InitTwiceBasic

\* what one invocation returns, its lists as the invocation leaves them
EnhancedReturned(r) ==
  IF r.threw THEN r
  ELSE [r EXCEPT !.orderBlocks = OrderBlocksAfterStopLoss(r.signal, r.orderBlocks)]

Recorded(returned) ==
  [threw |-> returned.threw,
   calls |-> out.calls + 1,
   first |-> IF out.calls = 0 THEN returned ELSE out.first,
   last |-> returned]

\* generateEnhancedSignal reads data through indexing and slice only
InvokeEnhanced ==
  /\ inp.kind = "enhanced"
  /\ out.calls < MaxCalls
  /\ op' = "generateEnhancedSignal"
  /\ out' = Recorded(EnhancedReturned(generateEnhancedSignal(data, inp.analysis, inp.advancedAnalysis, inp.config)))
  /\ UNCHANGED <<data, inp>>

\* generateSignal reads data[data.length - 1] only
InvokeBasic ==
  /\ inp.kind = "basic"
  /\ out.calls < MaxCalls
  /\ op' = "generateSignal"
  /\ out' = Recorded(generateSignal(data, inp.analysis, inp.config))
  /\ UNCHANGED <<data, inp>>

NextTwice == InvokeEnhanced \/ InvokeBasic

SpecTwice == InitTwice /\ [][NextTwice]_vars

\* ---- the order-block detector on candles of any shape ----
MaxBlockLen == 8

BlockBase == 11000

BlockOffsets == {-10, 0, 10, 20}

BlockRanges == {0, 30}

BlockVolumes == {0, 1000, 3000}

\* n quiet candles at BlockBase of volume 1000; candle p has the given open
\* and close offsets, spans [BlockBase, BlockBase + range] and has the given
\* volume (values as parsed from the feed, forexService.ts lines 237-240)
BlockData(n, p, oo, co, range, volume) ==
  [j \in 1..n |->
     IF j - 1 = p
     THEN Candle(BlockBase + oo, BlockBase + range, BlockBase, BlockBase + co, volume)
     ELSE Candle(BlockBase, BlockBase + 5, BlockBase - 5, BlockBase, 1000)]

InitBlocks ==
  /\ \E n \in 0..MaxBlockLen, oo \in BlockOffsets, co \in BlockOffsets,
        range \in BlockRanges, volume \in BlockVolumes :
       \E p \in 0..IMax(n - 1, 0) : data = BlockData(n, p, oo, co, range, volume)
  /\ inp = [config |-> DefaultEnhancedConfig]
  /\ op = "init"
  /\ out = NoOutput

OrderBlocksOfCandles ==
  /\ op = "init"
  /\ op' = "identifyOrderBlocks"
  /\ out' = [threw |-> FALSE, list |-> identifyOrderBlocks(data, inp.config)]
  /\ UNCHANGED <<data, inp>>

NextBlocks == OrderBlocksOfCandles

SpecBlocks == InitBlocks /\ [][NextBlocks]_vars

\* ---- useEnhancedTradingSignals on a clean uptrend, candle by candle ----
\* the candle count useEnhancedTradingSignals requires
EnhancedMinCandles == 100

RampBase == 11000

\* <<pips a candle closes over its open, wick on both sides>>
RampShapes == {<<4, 1>>, <<8, 2>>}

\* the j-th candle (from 1) of a well-formed uptrend: it opens at the previous
\* close and closes step pips higher, so closes, highs and lows all rise
RampCandle(j, step, wick) ==
  Candle(RampBase + step * (j - 1), RampBase + step * j + wick,
         RampBase + step * (j - 1) - wick, RampBase + step * j, 1000)

RampData(n, step, wick) == [j \in 1..n |-> RampCandle(j, step, wick)]

NullSignal == [threw |-> FALSE, null |-> TRUE]

InitRamp ==
  /\ data = <<>>
  /\ \E shape \in RampShapes, session \in BOOLEAN :
       inp = [step |-> shape[1], wick |-> shape[2], sessionFilter |-> session]
  /\ op = "init"
  /\ out = NoOutput

\* the feed delivers the next candle of the uptrend
ReceiveCandle ==
  /\ Len(data) < EnhancedMinCandles
  /\ data' = Append(data, RampCandle(Len(data) + 1, inp.step, inp.wick))
  /\ op' = "receive"
  /\ out' = NoOutput
  /\ UNCHANGED inp

\* the hook: null under EnhancedMinCandles candles, the pipeline otherwise;
\* the session flag stands for isSessionActive()
UseEnhancedTradingSignals ==
  /\ op' = "useEnhancedTradingSignals"
  /\ out' = IF Len(data) < EnhancedMinCandles THEN NullSignal
            ELSE EnhancedPipeline(data, inp.sessionFilter, DefaultEnhancedConfig)
  /\ UNCHANGED <<data, inp>>

NextRamp == ReceiveCandle \/ UseEnhancedTradingSignals

SpecRamp == InitRamp /\ [][NextRamp]_vars

(***************************************************************************)
(* Pivot points of a candle sequence.  The last candle ranges over flat,   *)
(* one-pip and thirty-pip candles at the feed's price levels; the candle   *)
(* before it, when there is one, lies elsewhere.                           *)
(***************************************************************************)
PivotLows == {6670, 7000, 7450, 10850, 12650}

PivotRanges == {0, 1, 30}

PivotCandle(low, range, close) == Candle(close, low + range, low, close, 1000)

PivotLastCandles ==
  {PivotCandle(low, range, low + rise) : low \in PivotLows, range \in PivotRanges, rise \in {0, 1, 10, 30}}

PivotEarlier == {<<>>, <<PivotCandle(9000, 50, 9020)>>, <<PivotCandle(14000, 0, 14000)>>}

InitPivot ==
  /\ data \in {<<>>} \cup {e \o <<c>> : e \in PivotEarlier, c \in {k \in PivotLastCandles : k.close <= k.high}}
  /\ inp = [none |-> TRUE]
  /\ op = "init"
  /\ out = [threw |-> FALSE]

CalculatePivotPoints ==
  /\ op' = "calculatePivotPoints"
  /\ out' = calculatePivotPoints(data)
  /\ UNCHANGED <<data, inp>>

NextPivot == CalculatePivotPoints

SpecPivot == InitPivot /\ [][NextPivot]_vars

\* ---- liquidity zones with a second candle near the swing's extreme ----
MaxTouchLen == 16

TouchBase == 11000

\* n quiet candles; candle p peaks 50 pips over TouchBase and candle q one pip
\* under that peak (within the tolerance of 0.02%)
TouchData(n, p, q) ==
  [j \in 1..n |->
     IF j - 1 = p THEN Candle(TouchBase + 40, TouchBase + 50, TouchBase + 30, TouchBase + 45, 1000)
     ELSE IF j - 1 = q THEN Candle(TouchBase, TouchBase + 49, TouchBase - 5, TouchBase + 5, 1000)
     ELSE Candle(TouchBase, TouchBase + 5, TouchBase - 5, TouchBase, 1000)]

\* the same candles upside down: the peak becomes a trough
TouchFlip(d) ==
  [j \in 1..Len(d) |->
     Candle(2 * TouchBase - d[j].open, 2 * TouchBase - d[j].low,
            2 * TouchBase - d[j].high, 2 * TouchBase - d[j].close, d[j].volume)]

InitTouch ==
  /\ \E n \in 0..MaxTouchLen, flipped \in BOOLEAN :
       \E p \in 0..IMax(n - 1, 0), q \in 0..IMax(n - 1, 0) :
         data = IF flipped THEN TouchFlip(TouchData(n, p, q)) ELSE TouchData(n, p, q)
  /\ inp = [config |-> DefaultEnhancedConfig]
  /\ op = "init"
  /\ out = NoOutput

LiquidityZonesOfCandles ==
  /\ op = "init"
  /\ op' = "identifyLiquidityZones"
  /\ out' = [threw |-> FALSE, list |-> identifyLiquidityZones(data)]
  /\ UNCHANGED <<data, inp>>

NextTouch == LiquidityZonesOfCandles

SpecTouch == InitTouch /\ [][NextTouch]_vars

\* ---- the market microstructure of a rise followed by a fall ----
MaxMicroLeg == 8

MicroBase == 11000

MicroVolumes == {1000, 3000}

\* pips by which each candle of the fall lies below the one before
MicroFalls == {11, 15, 18}

\* low of candle i: up candles climb 15 pips each, the candles after them fall
MicroLowAt(up, fall, i) == IF i < up THEN MicroBase + 15 * i ELSE MicroBase + 15 * (up - 1) - fall * (i - up + 1)

\* candle i, 10 pips high with a full body, rising in the climb and falling after it
MicroCandle(up, fall, i, volume) == Candle(MicroLowAt(up, fall, i) + (IF i < up THEN 0 ELSE 10), MicroLowAt(up, fall, i) + 10, MicroLowAt(up, fall, i), MicroLowAt(up, fall, i) + (IF i < up THEN 10 ELSE 0), volume)

\* every second candle has volume high
MicroData(up, down, fall, high) == [k \in 1..(up + down) |-> MicroCandle(up, fall, k - 1, IF k % 2 = 0 THEN high ELSE 1000)]

\* reflection of a candle sequence about MicroBase
MicroFlip(d) == [i \in 1..Len(d) |-> Candle(2 * MicroBase - d[i].open, 2 * MicroBase - d[i].low, 2 * MicroBase - d[i].high, 2 * MicroBase - d[i].close, d[i].volume)]

InitMicro ==
  /\ \E up \in 1..MaxMicroLeg, down \in 0..MaxMicroLeg, fall \in MicroFalls, high \in MicroVolumes, flipped \in BOOLEAN :
       data = IF flipped THEN MicroFlip(MicroData(up, down, fall, high)) ELSE MicroData(up, down, fall, high)
  /\ inp = [config |-> DefaultEnhancedConfig]
  /\ op = "init"
  /\ out = NoOutput

\* lines 96-100: the gaps and blocks of the candles, then their microstructure
MicrostructureOf(d, fairValueGaps, orderBlocks) ==
  [threw |-> FALSE, fairValueGaps |-> fairValueGaps, orderBlocks |-> orderBlocks,
   microstructure |-> analyzeMarketMicrostructure(d, fairValueGaps, orderBlocks)]

AnalyzeMarketMicrostructure ==
  /\ op = "init"
  /\ op' = "analyzeMarketMicrostructure"
  /\ out' = MicrostructureOf(data, identifyFairValueGaps(data, inp.config),
                             identifyOrderBlocks(data, inp.config))
  /\ UNCHANGED <<data, inp>>

NextMicro == AnalyzeMarketMicrostructure

SpecMicro == InitMicro /\ [][NextMicro]_vars

(***************************************************************************)
(* Properties                                                              *)
(***************************************************************************)
Defined(x) == x.k # "undef"

\* candle j revisits the gap g
Revisits(d, g, j) ==
  \/ g.type = "bullish" /\ At(d, j).low <= g.low
  \/ g.type = "bearish" /\ At(d, j).high >= g.high

\* C1: a returned fair value gap is filled only if a candle strictly after its
\* three-candle pattern (index > origin + 1) revisits it; so a gap whose third
\* candle is the last candle is unfilled.
C1_FilledOnlyByLaterCandle ==
  op = "identifyFairValueGaps" =>
    \A g \in 1..Len(out.gaps) :
      out.gaps[g].filled =>
        \E j \in (out.gaps[g].index + 2)..(Len(data) - 1) : Revisits(data, out.gaps[g], j)

\* C2: every consecutive triple (i-1, i, i+1), the first one (0, 1, 2) included,
\* is examined: a void of at least fvgMinSize between candle i-1 and candle i+1
\* is reported as a gap with origin i, bullish or bearish.
C2_EveryTripleExamined ==
  op = "identifyFairValueGaps" =>
    \A i \in 1..(Len(data) - 2) :
      /\ At(data, i - 1).low - At(data, i + 1).high >= inp.config.fvgMinSize
           => \E g \in 1..Len(out.gaps) :
                out.gaps[g].type = "bullish" /\ out.gaps[g].index = i
      /\ At(data, i + 1).low - At(data, i - 1).high >= inp.config.fvgMinSize
           => \E g \in 1..Len(out.gaps) :
                out.gaps[g].type = "bearish" /\ out.gaps[g].index = i

ValueAt(series, t) ==
  LET hit == {i \in 1..Len(series) : series[i].timestamp = t}
  IN  IF hit = {} THEN Undefined ELSE series[CHOOSE i \in hit : TRUE].value

\* C3: every MACD point is EMA(12) minus EMA(26) of the candle whose timestamp
\* the point carries: the two EMA points subtracted have that same timestamp.
C3_MacdSameCandle ==
  (op = "calculateMACD" /\ ~out.threw) =>
    LET e12 == calculateEMA(data, MacdFast).pts
        e26 == calculateEMA(data, MacdSlow).pts
    IN  /\ \A i \in MacdStartIndex..(IMin(Len(e12), Len(e26)) - 1) :
             /\ MacdFastIndex(i) < Len(e12)
             /\ At(e12, MacdFastIndex(i)).timestamp = At(e26, i).timestamp
        /\ \A k \in 1..Len(out.macd) :
             JEq(out.macd[k].value,
                 JSub(ValueAt(e12, out.macd[k].timestamp),
                      ValueAt(e26, out.macd[k].timestamp)))

IndicatorOps ==
  {"calculateSMA", "calculateEMA", "calculateRSI", "calculateMACD",
   "calculateBollingerBands", "calculateADX", "calculateATR"}

OutputEmpty ==
  IF op = "calculateMACD"
  THEN out.macd = <<>> /\ out.signal = <<>> /\ out.histogram = <<>>
  ELSE IF op = "calculateBollingerBands"
  THEN out.upper = <<>> /\ out.middle = <<>> /\ out.lower = <<>>
  ELSE out.pts = <<>>

\* C4: an indicator function given a non-empty candle sequence shorter than its
\* period returns an empty series and does not raise.
C4_ShortInputEmpty ==
  (op \in IndicatorOps /\ Len(data) >= 1 /\ Len(data) < inp.period) =>
    ~out.threw /\ OutputEmpty

\* C5: on 30 identical candles, with the indicators computed from them, the
\* enhanced strategy (either session flag) and the basic strategy, both under
\* their default configuration, signal HOLD.
C5_FlatMarketHold ==
  (op \in {"enhancedPipeline", "basicPipeline"} /\ Len(data) = FlatLen)
    => ~out.threw /\ out.signal = "HOLD"

InRange(x, lo, hi) == IsNum(x) /\ JGe(x, N(lo)) /\ JLe(x, N(hi))

\* C6: the confidence reported by the enhanced strategy and by the basic
\* strategy lies in [0, 100].
C6_ConfidenceInRange ==
  /\ op \in {"analyzeAdvancedConfluence", "calculateConfidence"}
       => InRange(out.confidence, 0, 100)
  /\ op = "determineSmartMoneySignal" => InRange(out.ca.confidence, 0, 100)
  /\ (op \in {"generateEnhancedSignal", "generateSignal"} /\ ~out.threw)
       => InRange(out.confidence, 0, 100)

\* the cap of the enhanced engine acts: the unclamped confidence exceeds it
C6_Witness ==
  /\ op = "analyzeAdvancedConfluence"
  /\ out.bearish = 0 /\ out.bullish > 0 /\ out.confluenceScore >= 12
  /\ JEq(out.confidence, N(95))

\* C7 as claimed: the confluence score is never negative.
C7_ScoreNeverNegative ==
  op = "analyzeAdvancedConfluence" => out.confluenceScore >= 0

\* C7 as amended: the confluence score is never below -1, and it is negative
\* only when the session flag is inactive and no other rule contributed.
C7_ScoreAtLeastMinusOne ==
  op = "analyzeAdvancedConfluence" =>
    /\ out.confluenceScore >= -1
    /\ out.confluenceScore < 0 =>
         /\ ~inp.advancedAnalysis.sessionFilter
         /\ out.bullish = 0 /\ out.bearish = 0
         /\ inp.volumeProfile # "high"
         /\ out.reasons = <<"Outside major sessions">>

C7_Witness ==
  op = "analyzeAdvancedConfluence" /\ out.confluenceScore = -1

\* C8: the classifier returns HOLD exactly when confidence < minConfidence, or
\* the confluence score is below 4, or bullish = bearish.
C8_HoldExactly ==
  op = "determineSmartMoneySignal" =>
    (out.signal = "HOLD" <=>
       \/ JLt(out.ca.confidence, N(inp.config.minConfidence))
       \/ out.ca.confluenceScore < 4
       \/ out.ca.bullish = out.ca.bearish)

\* a tie held although confidence and confluence score pass their thresholds
C8_Witness ==
  /\ op = "determineSmartMoneySignal"
  /\ out.signal = "HOLD"
  /\ out.ca.bullish = out.ca.bearish /\ out.ca.bullish > 0
  /\ JGe(out.ca.confidence, N(inp.config.minConfidence))
  /\ out.ca.confluenceScore >= 4

VeryStrongThresholds(ca) ==
  ca.confluenceScore >= 12 /\ IAbs(ca.bullish - ca.bearish) >= 6 /\ JGe(ca.confidence, N(85))

StrongThresholds(ca) ==
  ca.confluenceScore >= 8 /\ IAbs(ca.bullish - ca.bearish) >= 4 /\ JGe(ca.confidence, N(75))

\* C9: tiers are strongest-first and exclusive: STRONG only with all three
\* very-strong thresholds, BUY/SELL only with all three strong thresholds and
\* not the very-strong ones, WEAK otherwise; BUY family only when
\* bullish > bearish, SELL family only when bearish > bullish.
C9_TiersExclusive ==
  op = "determineSmartMoneySignal" =>
    /\ out.signal \in {"STRONG_BUY", "STRONG_SELL"} => VeryStrongThresholds(out.ca)
    /\ out.signal \in {"BUY", "SELL"}
         => StrongThresholds(out.ca) /\ ~VeryStrongThresholds(out.ca)
    /\ out.signal \in {"WEAK_BUY", "WEAK_SELL"}
         => ~StrongThresholds(out.ca) /\ ~VeryStrongThresholds(out.ca)
    /\ out.signal \in BuyFamily => out.ca.bullish > out.ca.bearish
    /\ out.signal \in SellFamily => out.ca.bearish > out.ca.bullish

\* the strong tier although the score alone would reach the very-strong one
C9_Witness ==
  /\ op = "determineSmartMoneySignal"
  /\ out.signal = "SELL"
  /\ out.ca.confluenceScore >= 12

\* C10: in every signal produced, riskReward is defined exactly when stopLoss
\* and takeProfit both are, and then equals |takeProfit - price| / |price -
\* stopLoss|; a HOLD signal carries an undefined riskReward.
C10_RiskRewardIffLegs ==
  (op \in {"generateEnhancedSignal", "generateSignal"} /\ ~out.threw) =>
    /\ Defined(out.riskReward) <=> (Defined(out.stopLoss) /\ Defined(out.takeProfit))
    /\ Defined(out.riskReward) =>
         JEq(out.riskReward,
             JDiv(JAbs(JSub(out.takeProfit, N(out.price))),
                  JAbs(JSub(N(out.price), out.stopLoss))))
    /\ out.signal = "HOLD" => ~Defined(out.riskReward)


SetMax(S) == CHOOSE x \in S : \A y \in S : y <= x

SetMin(S) == CHOOSE x \in S : \A y \in S : x <= y

\* C11: for a BUY-family signal the stop-loss is the low of the nearest
\* untested demand block below the price minus 0.3 ATR, and the ATR fallback
\* price - ATR * atrMultiplierSL only when there is no such block;
\* symmetrically for SELL with untested supply blocks above the price.  A
\* tested block is never the stop level.
C11_StopFromUntestedBlock ==
  (op = "calculateSmartStopLoss" /\ inp.signal # "HOLD") =>
    LET blocks == inp.orderBlocks
        price == inp.currentPrice
        buy == inp.signal \in BuyFamily
        cand == {i \in 1..Len(blocks) :
                   /\ ~blocks[i].tested
                   /\ IF buy THEN blocks[i].type = "demand" /\ blocks[i].high < price
                      ELSE blocks[i].type = "supply" /\ blocks[i].low > price}
        margin == JMul(inp.atr, Q(3, 10))
        fallback == JMul(inp.atr, inp.config.atrMultiplierSL)
    IN  IF cand = {}
        THEN JEq(out.stopLoss, IF buy THEN JSub(N(price), fallback)
                               ELSE JAdd(N(price), fallback))
        ELSE IF buy
        THEN \E i \in cand :
               /\ blocks[i].high = SetMax({blocks[j].high : j \in cand})
               /\ JEq(out.stopLoss, JSub(N(blocks[i].low), margin))
        ELSE \E i \in cand :
               /\ blocks[i].low = SetMin({blocks[j].low : j \in cand})
               /\ JEq(out.stopLoss, JAdd(N(blocks[i].high), margin))

\* the structural targets of a signal: edges of unfilled gaps and prices of
\* unswept zones on the profit side of the price
TargetLevels ==
  LET buy == inp.signal \in BuyFamily
      price == inp.currentPrice
  IN  {IF buy THEN inp.fvgs[i].low ELSE inp.fvgs[i].high :
         i \in {k \in 1..Len(inp.fvgs) :
                  /\ ~inp.fvgs[k].filled
                  /\ IF buy THEN inp.fvgs[k].type = "bearish" /\ inp.fvgs[k].low > price
                     ELSE inp.fvgs[k].type = "bullish" /\ inp.fvgs[k].high < price}}
      \cup
      {inp.liquidityZones[i].price :
         i \in {k \in 1..Len(inp.liquidityZones) :
                  /\ ~inp.liquidityZones[k].swept
                  /\ IF buy THEN /\ inp.liquidityZones[k].type = "sell_liquidity"
                                 /\ inp.liquidityZones[k].price > price
                     ELSE /\ inp.liquidityZones[k].type = "buy_liquidity"
                          /\ inp.liquidityZones[k].price < price}}

\* C12: for a BUY-family signal the take-profit is the minimum over the lows
\* of the unfilled bearish gaps above the price and the prices of the unswept
\* sell-liquidity zones above the price, and an ATR multiple above the price
\* when there is none; symmetrically (maximum, below) for SELL.  Filled gaps
\* and swept zones are never targets.
C12_TargetIsNearestLevel ==
  (op = "calculateSmartTakeProfit" /\ inp.signal # "HOLD") =>
    LET buy == inp.signal \in BuyFamily
        price == N(inp.currentPrice)
    IN  IF TargetLevels # {}
        THEN JEq(out.takeProfit,
                 N(IF buy THEN SetMin(TargetLevels) ELSE SetMax(TargetLevels)))
        ELSE \E m \in {N(2), Q(5, 2)} :
               JEq(out.takeProfit, IF buy THEN JAdd(price, JMul(inp.atr, m))
                                   ELSE JSub(price, JMul(inp.atr, m)))

\* a gap and a zone compete, and a nearer filled gap is passed over
C12_Witness ==
  /\ op = "calculateSmartTakeProfit"
  /\ inp.signal = "SELL"
  /\ Cardinality(TargetLevels) = 2
  /\ \E i \in 1..Len(inp.fvgs) :
       /\ inp.fvgs[i].filled /\ inp.fvgs[i].type = "bullish"
       /\ inp.fvgs[i].high < inp.currentPrice
       /\ inp.fvgs[i].high > SetMax(TargetLevels)
  /\ JEq(out.takeProfit, N(SetMax(TargetLevels)))

\* the full detection list of the operation just applied, and its cap
DetectedAll ==
  IF op = "identifyFairValueGaps" THEN AllFairValueGaps(data, inp.config)
  ELSE IF op = "identifyOrderBlocks" THEN AllOrderBlocks(data, inp.config)
  ELSE AllLiquidityZones(data)

CapOf ==
  IF op = "identifyFairValueGaps" THEN 8
  ELSE IF op = "identifyOrderBlocks" THEN 6 ELSE 8

\* C13: the returned fair value gaps, order blocks and liquidity zones number
\* at most 8, 6 and 8; each list is exactly the tail of the full detection
\* list, in non-decreasing origin-index order, so that the oldest detections
\* are the ones dropped.
C13_ListsAreCappedTails ==
  op \in {"identifyFairValueGaps", "identifyOrderBlocks", "identifyLiquidityZones"} =>
    LET all == DetectedAll
        kept == out.list
        dropped == Len(all) - Len(kept)
    IN  /\ Len(kept) <= CapOf
        /\ Len(kept) = IMin(Len(all), CapOf)
        /\ \A k \in 1..Len(kept) : kept[k] = all[dropped + k]
        /\ \A k \in 1..(Len(kept) - 1) : kept[k].index <= kept[k + 1].index
        /\ \A j \in 1..dropped : \A k \in 1..Len(kept) : all[j].index <= kept[k].index

\* more liquidity zones are detected than are kept
C13_Witness ==
  /\ op = "identifyLiquidityZones"
  /\ Len(AllLiquidityZones(data)) > 8
  /\ Len(out.list) = 8

SameDetection(a, b) == a.type = b.type /\ a.index = b.index

\* C14: when candles are appended and the lists are recomputed, a fair value
\* gap (order block, liquidity zone) reported before and after with the same
\* type and origin index, and filled (tested, swept) before, is filled
\* (tested, swept) after: no flag reverts from true to false.
C14_LatchesNeverRevert ==
  op = "recompute" =>
    /\ \A i \in 1..Len(inp.previous.fairValueGaps), j \in 1..Len(out.fairValueGaps) :
         (/\ SameDetection(inp.previous.fairValueGaps[i], out.fairValueGaps[j])
          /\ inp.previous.fairValueGaps[i].filled) => out.fairValueGaps[j].filled
    /\ \A i \in 1..Len(inp.previous.orderBlocks), j \in 1..Len(out.orderBlocks) :
         (/\ SameDetection(inp.previous.orderBlocks[i], out.orderBlocks[j])
          /\ inp.previous.orderBlocks[i].tested) => out.orderBlocks[j].tested
    /\ \A i \in 1..Len(inp.previous.liquidityZones), j \in 1..Len(out.liquidityZones) :
         (/\ SameDetection(inp.previous.liquidityZones[i], out.liquidityZones[j])
          /\ inp.previous.liquidityZones[i].swept) => out.liquidityZones[j].swept

\* a swept zone, a tested block and a filled gap are each reported again, with
\* the flag still set, after an append
C14_Witness ==
  /\ op = "recompute"
  /\ \E i \in 1..Len(inp.previous.liquidityZones), j \in 1..Len(out.liquidityZones) :
       /\ SameDetection(inp.previous.liquidityZones[i], out.liquidityZones[j])
       /\ inp.previous.liquidityZones[i].swept /\ out.liquidityZones[j].swept
  /\ \E i \in 1..Len(inp.previous.orderBlocks), j \in 1..Len(out.orderBlocks) :
       /\ SameDetection(inp.previous.orderBlocks[i], out.orderBlocks[j])
       /\ inp.previous.orderBlocks[i].tested /\ out.orderBlocks[j].tested
  /\ \E i \in 1..Len(inp.previous.fairValueGaps), j \in 1..Len(out.fairValueGaps) :
       /\ SameDetection(inp.previous.fairValueGaps[i], out.fairValueGaps[j])
       /\ inp.previous.fairValueGaps[i].filled

EnhancedTallyOfPresent ==
  LET a == inp.analysis
  IN  AddTally(IF a.rsi = <<>> THEN NoTally ELSE RsiRule(a),
      AddTally(IF a.macd.histogram = <<>> THEN NoTally ELSE MacdRule(a),
      AddTally(IF a.ema12 = <<>> \/ a.ema26 = <<>> THEN NoTally
               ELSE EmaRule(a, inp.currentPrice),
      AddTally(FvgRules(inp.fvgs, inp.currentPrice),
      AddTally(OrderBlockRules(inp.orderBlocks, inp.currentPrice),
      AddTally(MicrostructureRule(inp.microstructure),
      AddTally(VolumeRule(inp.volumeProfile),
               SessionRule(inp.advancedAnalysis.sessionFilter))))))))

\* the basic tally with the rule of every indicator whose series is empty left
\* out
BasicTallyOfPresent ==
  LET a == inp.analysis
      currentPrice == At(data, Len(data) - 1).close
  IN  AddBasic(IF a.sma20 = <<>> \/ a.sma50 = <<>> THEN NoBasic
               ELSE BasicSmaRule(a, currentPrice),
      AddBasic(IF a.ema12 = <<>> \/ a.ema26 = <<>> THEN NoBasic ELSE BasicEmaRule(a),
      AddBasic(IF a.rsi = <<>> THEN NoBasic ELSE BasicRsiRule(a),
      AddBasic(IF a.macd.histogram = <<>> THEN NoBasic ELSE BasicMacdRule(a),
               IF a.bollingerBands.middle = <<>> THEN NoBasic
               ELSE BasicBollingerRule(a, currentPrice)))))

\* C16: when an indicator series handed to the confluence engine is empty, the
\* evaluation completes and that indicator's rule adds nothing to bullish,
\* bearish, confluenceScore or reasons (enhanced: RSI, MACD histogram, EMA12 /
\* EMA26; basic: also SMA20 / SMA50 and the Bollinger bands).
C16_EmptySeriesAddsNothing ==
  /\ op = "analyzeAdvancedConfluence" =>
       /\ out.bullish = EnhancedTallyOfPresent.bullish
       /\ out.bearish = EnhancedTallyOfPresent.bearish
       /\ out.confluenceScore = EnhancedTallyOfPresent.confluenceScore
       /\ out.reasons = EnhancedTallyOfPresent.reasons
       /\ IsNum(out.confidence)
  /\ op = "calculateConfidence" =>
       /\ out.signals = BasicTallyOfPresent
       /\ IsNum(out.confidence)
  /\ op = "generateSignal" =>
       /\ ~out.threw
       /\ out.reasons = BasicTallyOfPresent.reasons

\* the enhanced engine evaluated with RSI, MACD histogram and both EMA series
\* empty while other rules contribute
C16_Witness ==
  /\ op = "analyzeAdvancedConfluence"
  /\ inp.analysis.rsi = <<>>
  /\ inp.analysis.macd.histogram = <<>>
  /\ inp.analysis.ema12 = <<>>
  /\ inp.analysis.ema26 = <<>>
  /\ out.bullish > 0
  /\ out.bearish > 0

\* no close under its predecessor among the RsiPeriod changes that the j-th
\* RSI point averages (candles j .. j + RsiPeriod of the 1-based sequence)
NoLossInWindow(j) ==
  \A k \in j..(j + RsiPeriod - 1) : data[k + 1].close >= data[k].close

\* C17: every value emitted by calculateRSI satisfies 0 <= RSI <= 100; in a
\* window whose average loss is zero (a window without any price change
\* included) RS is 100, so RSI = 100 - 100/101, and no division by zero occurs.
C17_RsiBounded ==
  op = "calculateRSI" =>
    /\ ~out.threw
    /\ \A j \in 1..Len(out.pts) :
         /\ IsNum(out.pts[j].value)
         /\ JGe(out.pts[j].value, N(0))
         /\ JLe(out.pts[j].value, N(100))
         /\ NoLossInWindow(j) => JEq(out.pts[j].value, Q(10000, 101))

\* an RSI series holding a window without losses and a window where gains
\* and losses balance
C17_Witness ==
  /\ op = "calculateRSI"
  /\ \E j \in 1..Len(out.pts) :
       NoLossInWindow(j) /\ JEq(out.pts[j].value, Q(10000, 101))
  /\ \E j \in 1..Len(out.pts) :
       ~NoLossInWindow(j) /\ JEq(out.pts[j].value, N(50))

\* C18: a candle with zero range (high = low) is never reported as an order
\* block, whatever its open, close and volume, and the strength computation
\* never divides by zero (every reported strength is a finite number).
C18_ZeroRangeNeverBlock ==
  op = "identifyOrderBlocks" =>
    \A k \in 1..Len(out.list) :
      /\ At(data, out.list[k].index).high # At(data, out.list[k].index).low
      /\ IsNum(out.list[k].strength)

\* C19: for 100 well-formed candles whose closes, highs and lows rise strictly,
\* the enhanced pipeline's signal is BUY or STRONG_BUY.
C19_UptrendBuys ==
  (op = "useEnhancedTradingSignals" /\ Len(data) = EnhancedMinCandles) =>
    /\ ~out.threw
    /\ out.signal \in {"BUY", "STRONG_BUY"}

\* the candle the pivot levels are computed from, as doubles
PivotHigh == DoubleOfPips(data[Len(data)].high)

PivotLow == DoubleOfPips(data[Len(data)].low)

PivotClose == DoubleOfPips(data[Len(data)].close)

\* a and b differ by at most 2^-49 (a few units in the last place of a price)
Near(a, b) == IF BigLess(a, b) THEN BigLe(BigSub(b, a), Big(2^5)) ELSE BigLe(BigSub(a, b), Big(2^5))

PivotFormulas ==
  LET twice == BigAdd(out.pivot, out.pivot)
      range == BigSub(PivotHigh, PivotLow)
  IN  /\ Near(BigAdd(twice, out.pivot), BigAdd(BigAdd(PivotHigh, PivotLow), PivotClose))
      /\ Near(BigAdd(out.resistance1, PivotLow), twice)
      /\ Near(BigAdd(out.support1, PivotHigh), twice)
      /\ Near(out.resistance2, BigAdd(out.pivot, range))
      /\ Near(BigAdd(out.support2, range), out.pivot)

PivotOrdered ==
  /\ BigLe(out.support2, out.support1)
  /\ BigLe(out.support1, out.pivot)
  /\ BigLe(out.pivot, out.resistance1)
  /\ BigLe(out.resistance1, out.resistance2)

PivotWellFormed ==
  /\ data[Len(data)].low <= data[Len(data)].close
  /\ data[Len(data)].close <= data[Len(data)].high

C21_ConfidenceFormula ==
  op = "analyzeAdvancedConfluence" =>
    LET total == out.bullish + out.bearish
        base == IF total > 0 THEN Q(100 * IMax(out.bullish, out.bearish), total) ELSE N(50)
        boosted == JAdd(base, N(IMin(2 * out.confluenceScore, 25)))
        capped == IF JLt(boosted, N(95)) THEN boosted ELSE N(95)
    IN  /\ JLe(out.confidence, N(95))
        /\ out.confluenceScore >= 5 => JGe(out.confidence, N(60))
        /\ JEq(out.confidence,
               IF out.confluenceScore >= 5 /\ JLt(capped, N(60)) THEN N(60) ELSE capped)

\* no directional rule fired and the score is positive: base 50 plus the boost
C21_Witness ==
  /\ op = "analyzeAdvancedConfluence"
  /\ out.bullish = 0 /\ out.bearish = 0
  /\ out.confluenceScore = 3
  /\ JEq(out.confidence, N(56))

\* the evaluation of the current arguments with the RSI series left out
WithoutRsi ==
  analyzeAdvancedConfluence([inp.analysis EXCEPT !.rsi = <<>>], inp.advancedAnalysis,
                            inp.currentPrice, inp.fvgs, inp.orderBlocks,
                            inp.volumeProfile, inp.microstructure)

CountOf(reasons, reason) == Cardinality({i \in 1..Len(reasons) : reasons[i] = reason})

\* C22: whenever the RSI series is non-empty and its latest value is below 30
\* (0 included), the confluence evaluation adds 4 to bullish and to
\* confluenceScore and appends one 'RSI oversold' reason; a latest value above
\* 70 adds 4 to bearish and to confluenceScore.
C22_RsiExtremesFire ==
  (op = "analyzeAdvancedConfluence" /\ Len(inp.analysis.rsi) > 0) =>
    LET rsi == inp.analysis.rsi[Len(inp.analysis.rsi)].value
    IN  /\ JLt(rsi, N(30)) =>
             /\ out.bullish = WithoutRsi.bullish + 4
             /\ out.confluenceScore = WithoutRsi.confluenceScore + 4
             /\ CountOf(out.reasons, "RSI oversold") = 1
        /\ JGt(rsi, N(70)) =>
             /\ out.bearish = WithoutRsi.bearish + 4
             /\ out.confluenceScore = WithoutRsi.confluenceScore + 4
             /\ CountOf(out.reasons, "RSI overbought") = 1

\* C23: the volume baseline of a scanned candle i is the arithmetic mean of
\* the volumes of data[max(0, i-5) .. i-1] (their sum over their number), and
\* a candle is reported as an order block only if its volume exceeds that mean
\* times orderBlockMinVolume and its body exceeds half of its range.
C23_BaselineIsWindowMean ==
  op = "identifyOrderBlocks" =>
    \A k \in 1..Len(out.list) :
      LET i == out.list[k].index
          candle == At(data, i)
          window == Slice(data, IMax(0, i - 5), i)
          mean == Q(SumInt([j \in 1..Len(window) |-> window[j].volume]), Len(window))
      IN  /\ JGt(N(candle.volume), JMul(mean, inp.config.orderBlockMinVolume))
          /\ 2 * IAbs(candle.close - candle.open) > candle.high - candle.low

\* the six neighbours of candle i, three on each side
SwingNeighbours(i) == ((i - 3)..(i - 1)) \cup ((i + 1)..(i + 3))

HasBothSides(i) == i - 3 >= 0 /\ i + 3 <= Len(data) - 1

ZonesOf(zones, type, i) == {k \in 1..Len(zones) : zones[k].type = type /\ zones[k].index = i}

\* C24: before capping, a sell-liquidity zone with origin i is reported
\* exactly when candle i has three candles on each side and its high is
\* strictly above the highs of candles i-3..i-1 and i+1..i+3 (a buy-liquidity
\* zone: its low strictly below those six lows); its swept flag is true exactly
\* when some later candle has a high strictly above (a low strictly below)
\* that extreme.
C24_SwingZonesExactly ==
  op = "recompute" =>
    LET zones == AllLiquidityZones(data)
    IN  /\ out.liquidityZones = LastN(zones, LiquidityKeep)
        /\ \A i \in 0..(Len(data) - 1) :
             /\ Cardinality(ZonesOf(zones, "sell_liquidity", i)) =
                  IF HasBothSides(i) /\ \A j \in SwingNeighbours(i) : At(data, j).high < At(data, i).high
                  THEN 1 ELSE 0
             /\ Cardinality(ZonesOf(zones, "buy_liquidity", i)) =
                  IF HasBothSides(i) /\ \A j \in SwingNeighbours(i) : At(data, j).low > At(data, i).low
                  THEN 1 ELSE 0
        /\ \A k \in 1..Len(zones) :
             /\ zones[k].type = "sell_liquidity" =>
                  /\ zones[k].price = At(data, zones[k].index).high
                  /\ zones[k].swept <=>
                       \E j \in (zones[k].index + 1)..(Len(data) - 1) : At(data, j).high > zones[k].price
             /\ zones[k].type = "buy_liquidity" =>
                  /\ zones[k].price = At(data, zones[k].index).low
                  /\ zones[k].swept <=>
                       \E j \in (zones[k].index + 1)..(Len(data) - 1) : At(data, j).low < zones[k].price

\* a swept zone reported, and a candle left out because a neighbour's high
\* equals its own
C24_Witness ==
  /\ op = "recompute"
  /\ \E k \in 1..Len(out.liquidityZones) : out.liquidityZones[k].swept
  /\ \E i \in 3..(Len(data) - 4) :
       /\ ZonesOf(out.liquidityZones, "sell_liquidity", i) = {}
       /\ \A j \in SwingNeighbours(i) : At(data, j).high <= At(data, i).high

\* the candles of the window [i - 10, i + 10], clipped to the sequence and
\* without candle i, whose extreme lies within 0.02% of the zone's price
TouchesAround(zone) ==
  {j \in (IMax(0, zone.index - 10)..IMin(Len(data) - 1, zone.index + 10)) \ {zone.index} :
     LET extreme == IF zone.type = "sell_liquidity" THEN At(data, j).high ELSE At(data, j).low
     IN  JLe(N(IAbs(extreme - zone.price)), Q(zone.price * 2, 10000))}

\* C25: the touch count in a liquidity zone's strength counts the candles of
\* the symmetric window [i-10, i+10], clipped to the sequence and without
\* candle i, whose high (swing high) or low (swing low) lies within 0.02% of
\* the extreme; a candle at i+10 counts like one at i-10.
C25_TouchWindowSymmetric ==
  op = "identifyLiquidityZones" =>
    \A k \in 1..Len(out.list) :
      LET zone == out.list[k]
          relativeVolume == JDiv(N(VolumeOr1(At(data, zone.index))), AvgVolumeBefore(data, zone.index))
      IN  JEq(zone.strength, JAdd(relativeVolume, Q(3 * Cardinality(TouchesAround(zone)), 10)))

\* the ten rules of one confluence evaluation, in the order of the code
ConfluenceRules ==
  <<RsiRule(inp.analysis),
    MacdRule(inp.analysis),
    EmaRule(inp.analysis, inp.currentPrice),
    FvgRule(inp.fvgs, inp.currentPrice, "bullish"),
    FvgRule(inp.fvgs, inp.currentPrice, "bearish"),
    OrderBlockRule(inp.orderBlocks, inp.currentPrice, "demand"),
    OrderBlockRule(inp.orderBlocks, inp.currentPrice, "supply"),
    MicrostructureRule(inp.microstructure),
    VolumeRule(inp.volumeProfile),
    SessionRule(inp.advancedAnalysis.sessionFilter)>>

\* orders of n rules other than 1..n: every exchange of two neighbouring
\* rules, every rotation and the reversal
RuleOrders(n) ==
  {[k \in 1..n |-> IF k = i THEN i + 1 ELSE IF k = i + 1 THEN i ELSE k] : i \in 1..(n - 1)}
    \cup {[k \in 1..n |-> ((k + s - 1) % n) + 1] : s \in 1..(n - 1)}
    \cup {[k \in 1..n |-> n + 1 - k]}

RECURSIVE TallyInOrder(_, _, _)
\* the tally after the first k rules of an order were evaluated
TallyInOrder(rules, order, k) ==
  IF k = 0 THEN NoTally ELSE AddTally(TallyInOrder(rules, order, k - 1), rules[order[k]])

\* a rule contributes at most one reason, to one side, and nothing without a reason
FiresAtMostOnce(rule) ==
  /\ Len(rule.reasons) <= 1
  /\ rule.bullish = 0 \/ rule.bearish = 0
  /\ rule.reasons = <<>> => rule.bullish = 0 /\ rule.bearish = 0 /\ rule.confluenceScore = 0

\* a tally of the rules in another order agrees with the returned analysis up
\* to the order of the reasons
SameUpToReasonOrder(tally, returned) ==
  /\ tally.bullish = returned.bullish
  /\ tally.bearish = returned.bearish
  /\ tally.confluenceScore = returned.confluenceScore
  /\ ConfluenceConfidence(tally) = returned.confidence
  /\ Len(tally.reasons) = Len(returned.reasons)
  /\ \A k \in 1..Len(returned.reasons) :
       CountOf(tally.reasons, returned.reasons[k]) = CountOf(returned.reasons, returned.reasons[k])

\* every rule fires at most once and every order of RuleOrders agrees with returned
OrderIndependent(rules, returned) ==
  /\ \A i \in 1..Len(rules) : FiresAtMostOnce(rules[i])
  /\ \A order \in RuleOrders(Len(rules)) :
       SameUpToReasonOrder(TallyInOrder(rules, order, Len(order)), returned)

\* C26: in one confluence evaluation each of the ten rules contributes at
\* most one reason and one weight to one side, so reasons has at most 10
\* entries; evaluating the rules in another order (any exchange of two
\* neighbouring rules, rotation or reversal) gives the same bullish, bearish, confluenceScore and
\* confidence and the same reasons in another order.
C26_RulesFireOnceInAnyOrder ==
  op = "analyzeAdvancedConfluence" =>
    Len(out.reasons) <= 10 /\ OrderIndependent(ConfluenceRules, out)

\* C26 witness: an evaluation in which all ten rules fired, on both sides
C26_Witness ==
  /\ op = "analyzeAdvancedConfluence"
  /\ Len(out.reasons) = 10
  /\ out.bullish > 0
  /\ out.bearish > 0

\* strictly higher highs and strictly lower lows among the last five candles
HigherHighsOfLastFive == Cardinality({i \in IMax(2, Len(data) - 3)..Len(data) : data[i].high > data[i - 1].high})

LowerLowsOfLastFive == Cardinality({i \in IMax(2, Len(data) - 3)..Len(data) : data[i].low < data[i - 1].low})

\* the bullish tally: price action, unfilled bullish gaps and untested demand
\* blocks that start below the current price
BullishTally ==
  (IF HigherHighsOfLastFive > LowerLowsOfLastFive THEN 1 ELSE 0)
    + Cardinality({k \in 1..Len(out.fairValueGaps) :
         /\ out.fairValueGaps[k].type = "bullish"
         /\ ~out.fairValueGaps[k].filled
         /\ out.fairValueGaps[k].low < data[Len(data)].close})
    + Cardinality({k \in 1..Len(out.orderBlocks) :
         /\ out.orderBlocks[k].type = "demand"
         /\ ~out.orderBlocks[k].tested
         /\ out.orderBlocks[k].low < data[Len(data)].close})

\* the bearish tally: the mirror image
BearishTally ==
  (IF LowerLowsOfLastFive > HigherHighsOfLastFive THEN 1 ELSE 0)
    + Cardinality({k \in 1..Len(out.fairValueGaps) :
         /\ out.fairValueGaps[k].type = "bearish"
         /\ ~out.fairValueGaps[k].filled
         /\ out.fairValueGaps[k].high > data[Len(data)].close})
    + Cardinality({k \in 1..Len(out.orderBlocks) :
         /\ out.orderBlocks[k].type = "supply"
         /\ ~out.orderBlocks[k].tested
         /\ out.orderBlocks[k].high > data[Len(data)].close})

\* C27: analyzeMarketMicrostructure returns 'bullish' exactly when the
\* bullish tally exceeds the bearish tally, 'bearish' exactly when it is
\* smaller and 'neutral' on a tie, the tallies being the price-action point
\* of the last five candles plus the unfilled gaps and untested blocks on the
\* price's side.
C27_MicrostructureMajority ==
  op = "analyzeMarketMicrostructure" =>
    /\ out.microstructure = "bullish" <=> BullishTally > BearishTally
    /\ out.microstructure = "bearish" <=> BullishTally < BearishTally
    /\ out.microstructure = "neutral" <=> BullishTally = BearishTally

\* C27 witness: a tie of non-zero tallies, an untested block on one side
\* against the price action of the last five candles on the other
C27_Witness ==
  /\ op = "analyzeMarketMicrostructure"
  /\ out.microstructure = "neutral"
  /\ BullishTally >= 1
  /\ HigherHighsOfLastFive # LowerLowsOfLastFive
  /\ \E k \in 1..Len(out.orderBlocks) : ~out.orderBlocks[k].tested

\* C28: when no structural target exists, the take-profit of a non-HOLD
\* signal lies at the ATR times config.atrMultiplierTP from the current price,
\* above it for a BUY-family signal and below it for a SELL-family signal.
C28_FallbackUsesConfiguredMultiplier ==
  (op = "calculateSmartTakeProfit" /\ inp.signal # "HOLD" /\ TargetLevels = {}) =>
    JEq(out.takeProfit,
        IF inp.signal \in BuyFamily
        THEN JAdd(N(inp.currentPrice), JMul(inp.atr, inp.config.atrMultiplierTP))
        ELSE JSub(N(inp.currentPrice), JMul(inp.atr, inp.config.atrMultiplierTP)))

\* C29: in every confluence evaluation confluenceScore = bullish + bearish
\* + (2 if volumeProfile is 'high', else 0) + (1 if the session is active,
\* else -1); bullish and bearish are at most 20 and confluenceScore at most 29.
C29_ScoreDecomposition ==
  op = "analyzeAdvancedConfluence" =>
    /\ out.confluenceScore = out.bullish + out.bearish
                               + (IF inp.volumeProfile = "high" THEN 2 ELSE 0)
                               + (IF inp.advancedAnalysis.sessionFilter THEN 1 ELSE -1)
    /\ out.bullish <= 20
    /\ out.bearish <= 20
    /\ out.confluenceScore <= 29

\* C29 witness: the evaluation that reaches both maxima, bullish 20 and score 29
C29_Witness ==
  /\ op = "analyzeAdvancedConfluence"
  /\ out.bullish = 20
  /\ out.bearish = 6
  /\ out.confluenceScore = 29

\* candles with low <= high and an ATR series without negative values
WellFormedInputs ==
  /\ \A i \in 1..Len(data) : data[i].low <= data[i].high
  /\ \A i \in 1..Len(inp.advancedAnalysis.atr) : JGe(inp.advancedAnalysis.atr[i].value, N(0))

\* C30: for every enhanced signal built from well-formed candles and a
\* non-negative ATR series, HOLD carries neither stopLoss nor takeProfit, a
\* BUY-family signal carries both with stopLoss < price < takeProfit, and a
\* SELL-family signal carries both with takeProfit < price < stopLoss.
C30_LevelsBracketPrice ==
  (op = "generateEnhancedSignal" /\ ~out.threw /\ WellFormedInputs) =>
    /\ out.signal = "HOLD" => out.stopLoss = Undefined /\ out.takeProfit = Undefined
    /\ out.signal \in BuyFamily =>
         /\ IsNum(out.stopLoss) /\ IsNum(out.takeProfit)
         /\ JLt(out.stopLoss, N(out.price)) /\ JLt(N(out.price), out.takeProfit)
    /\ out.signal \in SellFamily =>
         /\ IsNum(out.stopLoss) /\ IsNum(out.takeProfit)
         /\ JLt(out.takeProfit, N(out.price)) /\ JLt(N(out.price), out.stopLoss)
    /\ out.signal \in BuyFamily \cup SellFamily \cup {"HOLD"}

\* C30 witness: a SELL-family signal computed with a latest ATR of 0, its
\* stop above a supply block and its target at a liquidity zone
C30_Witness ==
  /\ op = "generateEnhancedSignal"
  /\ ~out.threw
  /\ out.signal \in SellFamily
  /\ Len(inp.advancedAnalysis.atr) > 0
  /\ JEq(inp.advancedAnalysis.atr[Len(inp.advancedAnalysis.atr)].value, N(0))
  /\ \E k \in 1..Len(out.orderBlocks) :
       /\ out.orderBlocks[k].type = "supply"
       /\ JEq(out.stopLoss, JAdd(N(out.orderBlocks[k].high), N(3)))
  /\ \E k \in 1..Len(out.liquidityZones) : JEq(out.takeProfit, N(out.liquidityZones[k].price))

====
